---- MODULE Spec2Model ----
(***************************************************************************)
(* Drone operations coordinator: the matching / conflict / reassignment    *)
(* engine (src/src/logic.py), the chat command layer that mutates and      *)
(* persists the collections (src/src/agent.py, src/src/storage.py) and the *)
(* HTTP endpoint that serves it (src/app.py).                              *)
(*                                                                         *)
(* Records are Python dicts with string values: a TLA+ function from the   *)
(* field names that are present to strings.  A comma-separated field       *)
(* (skills, certifications, capabilities) is the sequence of the parts     *)
(* between its commas, e.g. "Mapping, Thermal" is <<"Mapping"," Thermal">> *)
(* and "" is <<"">>.  An optional dict (pilot or None) is a sequence of    *)
(* length at most one.  A formatted message is the tuple of its kind and   *)
(* the values formatted into it.                                           *)
(***************************************************************************)
EXTENDS Integers, Sequences, FiniteSets, TLC

\* Python's None where a string is expected (dict.get without default).
None == "<None>"

----------------------------------------------------------------------------
\* Strings

\* str.lower() on the strings of the data: the mixed-case ones, by table.
LowerMap ==
    ("Available" :> "available") @@ ("AVAILABLE" :> "available") @@
    ("Available " :> "available ") @@
    ("Assigned" :> "assigned") @@ ("Maintenance" :> "maintenance") @@
    ("On Leave" :> "on leave") @@ ("Unavailable" :> "unavailable") @@
    ("Mumbai" :> "mumbai") @@ ("Delhi" :> "delhi") @@
    ("Mapping" :> "mapping") @@ ("Thermal" :> "thermal") @@
    (" Thermal" :> " thermal") @@
    ("Survey" :> "survey") @@ ("Inspection" :> "inspection") @@
    ("DGCA" :> "dgca") @@ ("Night Ops" :> "night ops") @@
    ("RGB" :> "rgb") @@ (" RGB" :> " rgb") @@ ("LiDAR" :> "lidar") @@
    ("Urgent" :> "urgent") @@ ("High" :> "high") @@
    ("Standard" :> "standard") @@ ("Low" :> "low") @@
    ("PRJ001" :> "prj001") @@ ("PRJ002" :> "prj002") @@
    ("PRJ003" :> "prj003") @@ ("PRJ999" :> "prj999") @@
    ("P001" :> "p001") @@ ("P002" :> "p002") @@ ("P003" :> "p003") @@
    ("D001" :> "d001") @@ ("D002" :> "d002") @@ ("D003" :> "d003") @@
    ("P004" :> "p004") @@ ("P009" :> "p009") @@
    ("D004" :> "d004") @@ ("D009" :> "d009") @@
    ("Grounded" :> "grounded") @@ ("Zoya" :> "zoya") @@
    ("Arjun" :> "arjun") @@ ("Neha" :> "neha") @@ ("Rohit" :> "rohit")

Lower(s) == IF s \in DOMAIN LowerMap THEN LowerMap[s] ELSE s

\* str.strip() on the strings of the data: the padded ones, by table.
StripMap ==
    (" Thermal" :> "Thermal") @@ (" thermal" :> "thermal") @@
    (" RGB" :> "RGB") @@ (" rgb" :> "rgb") @@
    ("Available " :> "Available") @@ ("available " :> "available") @@
    (" " :> "") @@ (" - " :> "-")

Strip(s) == IF s \in DOMAIN StripMap THEN StripMap[s] ELSE s

normalize_text(value) == Strip(Lower(value))

\* dict.get(key, default)
Get(r, k, d) == IF k \in DOMAIN r THEN r[k] ELSE d

\* Truth value of an optional string: None and "" are false.
Truthy(s) == s # None /\ s # ""

InSeq(x, seq) == \E i \in DOMAIN seq : seq[i] = x

Range(seq) == {seq[i] : i \in DOMAIN seq}

LowerAll(seq) == [i \in DOMAIN seq |-> Lower(seq[i])]

\* value.split(",") is the given sequence of parts; each is stripped and the
\* empty ones are dropped.
IsNonEmptyStr(v) == v # ""

split_list(parts) ==
    SelectSeq([i \in DOMAIN parts |-> Strip(parts[i])], IsNonEmptyStr)

\* The module is ASCII: the en-dash (U+2013) and the three-character string
\* U+00E2 U+20AC U+2013 of the source are written by their code points.
EnDash == "<U+2013>"

MisEncodedDash == "<U+00E2><U+20AC><U+2013>"

EmptySpellings == {"", "-", EnDash, MisEncodedDash}

\* As is_empty_assignment, but knowing the ASCII spellings only.
is_empty_assignment_ascii(value) ==
    IF value = None THEN TRUE ELSE Strip(value) \in {"", "-"}

is_empty_assignment(value) ==
    IF value = None THEN TRUE ELSE Strip(value) \in EmptySpellings

----------------------------------------------------------------------------
\* Dates

\* dateutil's parse on the ISO dates of the data: the day of January 2024.
\* Any other string (the empty string of a missing field) does not parse.
DateOrd ==
    ("2024-01-01" :> 1) @@ ("2024-01-05" :> 5) @@ ("2024-01-10" :> 10) @@
    ("2024-01-11" :> 11) @@ ("2024-01-15" :> 15) @@ ("2024-01-20" :> 20)

Parses(value) == value \in DOMAIN DateOrd

date(value) == DateOrd[value]

\* As overlaps, but exclusive at the boundaries.
overlaps_exclusive(a_start, a_end, b_start, b_end) ==
    IF ~Parses(a_start) \/ ~Parses(b_end) THEN "raise"
    ELSE IF ~(date(a_start) < date(b_end)) THEN "false"
    ELSE IF ~Parses(b_start) \/ ~Parses(a_end) THEN "raise"
    ELSE IF date(b_start) < date(a_end) THEN "true" ELSE "false"

\* _overlaps: "raise" when a date it evaluates does not parse; the second
\* comparison is evaluated only when the first holds.
overlaps(a_start, a_end, b_start, b_end) ==
    IF ~Parses(a_start) \/ ~Parses(b_end) THEN "raise"
    ELSE IF ~(date(a_start) <= date(b_end)) THEN "false"
    ELSE IF ~Parses(b_start) \/ ~Parses(a_end) THEN "raise"
    ELSE IF date(b_start) <= date(a_end) THEN "true" ELSE "false"

----------------------------------------------------------------------------
\* Availability filter

\* As SkillToCapability, but with Inspection mapped to Thermal and Thermal as
\* the default.
SkillToCapabilityThermal(skill) ==
    CASE skill = "Mapping" -> "RGB"
      [] skill = "Survey" -> "RGB"
      [] skill = "Inspection" -> "Thermal"
      [] skill = "Thermal" -> "Thermal"
      [] OTHER -> "Thermal"

\* SKILL_TO_CAPABILITY.get(skill, "RGB")
SkillToCapability(skill) ==
    CASE skill = "Mapping" -> "RGB"
      [] skill = "Survey" -> "RGB"
      [] skill = "Inspection" -> "RGB"
      [] skill = "Thermal" -> "Thermal"
      [] OTHER -> "RGB"

HasTag(r, field, wanted) ==
    InSeq(wanted, LowerAll(split_list(Get(r, field, <<"">>))))

\* As filter_pilots_keep, but comparing the location with the argument as
\* given, not lower-cased.
filter_pilots_keep_exact_location(p, skill, cert, location, available_only) ==
    /\ ~(available_only /\ normalize_text(Get(p, "status", "")) # "available")
    /\ (Truthy(skill) => HasTag(p, "skills", Lower(skill)))
    /\ (Truthy(cert) => HasTag(p, "certifications", Lower(cert)))
    /\ ~(Truthy(location) /\ normalize_text(Get(p, "location", "")) # location)

filter_pilots_keep(p, skill, cert, location, available_only) ==
    /\ ~(available_only /\ normalize_text(Get(p, "status", "")) # "available")
    /\ (Truthy(skill) => HasTag(p, "skills", Lower(skill)))
    /\ (Truthy(cert) => HasTag(p, "certifications", Lower(cert)))
    /\ ~(Truthy(location)
         /\ normalize_text(Get(p, "location", "")) # Lower(location))

filter_pilots(ps, skill, cert, location, available_only) ==
    LET Keep(p) == filter_pilots_keep(p, skill, cert, location, available_only)
    IN  SelectSeq(ps, Keep)

filter_drones_keep(d, capability, location, available_only) ==
    /\ ~(available_only /\ normalize_text(Get(d, "status", "")) # "available")
    /\ (Truthy(capability) => HasTag(d, "capabilities", Lower(capability)))
    /\ ~(Truthy(location)
         /\ normalize_text(Get(d, "location", "")) # Lower(location))

filter_drones(ds, capability, location, available_only) ==
    LET Keep(d) == filter_drones_keep(d, capability, location, available_only)
    IN  SelectSeq(ds, Keep)

----------------------------------------------------------------------------
\* Assignment recommender

Min(S) == CHOOSE x \in S : \A y \in S : x <= y

Max(S) == CHOOSE x \in S : \A y \in S : x >= y

\* As find_mission, but falling back to the first mission when none matches.
find_mission_or_first(ms, project_id) ==
    LET hits == {i \in DOMAIN ms : Get(ms[i], "project_id", None) = project_id}
    IN  IF ms = <<>> THEN <<>>
        ELSE IF hits = {} THEN <<ms[1]>> ELSE <<ms[Min(hits)]>>

\* next((m for m in missions if m.get("project_id") == project_id), None)
find_mission(ms, project_id) ==
    LET hits == {i \in DOMAIN ms : Get(ms[i], "project_id", None) = project_id}
    IN  IF hits = {} THEN <<>> ELSE <<ms[Min(hits)]>>

\* As pilot_test, but skipping every pilot that holds an assignment, whatever
\* the dates of the mission it names.
pilot_test_any_booking(p, mission, ms) ==
    IF normalize_text(Get(p, "status", "")) # "available" THEN "skip"
    ELSE IF normalize_text(Get(p, "location", ""))
            # normalize_text(Get(mission, "location", "")) THEN "skip"
    ELSE IF ~HasTag(p, "skills",
                    normalize_text(Get(mission, "required_skills", "")))
         THEN "skip"
    ELSE IF ~HasTag(p, "certifications",
                    normalize_text(Get(mission, "required_certs", "")))
         THEN "skip"
    ELSE IF is_empty_assignment(Get(p, "current_assignment", None)) THEN "keep"
    ELSE "skip"

\* One pass of the pilot loop: "skip" (continue), "keep" (append) or "raise"
\* (assigned["start_date"] / assigned["end_date"] on a mission without the
\* key, or a date that does not parse).
pilot_test(p, mission, ms) ==
    LET required_skill == Get(mission, "required_skills", "")
        required_cert  == Get(mission, "required_certs", "")
        location       == Get(mission, "location", "")
        start          == Get(mission, "start_date", "")
        end            == Get(mission, "end_date", "")
        assignment     == Get(p, "current_assignment", None)
        assigned       == find_mission(ms, assignment)
    IN  IF normalize_text(Get(p, "status", "")) # "available" THEN "skip"
        ELSE IF normalize_text(Get(p, "location", "")) # normalize_text(location)
             THEN "skip"
        ELSE IF ~HasTag(p, "skills", normalize_text(required_skill)) THEN "skip"
        ELSE IF ~HasTag(p, "certifications", normalize_text(required_cert))
             THEN "skip"
        ELSE IF is_empty_assignment(assignment) THEN "keep"
        ELSE IF assigned = <<>> THEN "keep"
        ELSE IF "start_date" \notin DOMAIN assigned[1]
                \/ "end_date" \notin DOMAIN assigned[1] THEN "raise"
        ELSE LET o == overlaps(start, end, assigned[1]["start_date"],
                               assigned[1]["end_date"])
             IN  IF o = "raise" THEN "raise"
                 ELSE IF o = "true" THEN "skip" ELSE "keep"

\* A result carries, beside the returned pilot, drone and issues, the locals
\* eligible_pilots and eligible_drones as they are at the return statement,
\* and raised: whether the call ended in an exception instead.
Raised ==
    [raised |-> TRUE, pilot |-> <<>>, drone |-> <<>>, issues |-> <<>>,
     eligible_pilots |-> <<>>, eligible_drones |-> <<>>]

\* An issue is the tuple of its text and the values formatted into it.
NoPilotIssue ==
    <<"No available pilot meets skill, cert, and location requirements.">>

NoDroneIssue ==
    <<"No available drone matches capability and location requirements.">>

UnknownProject(project_id) == <<"Unknown project: ", project_id>>

\* As Head1, but taking the last element.
Last1(seq) == IF seq = <<>> THEN <<>> ELSE <<seq[Len(seq)]>>

\* eligible[0] if eligible else None
Head1(seq) == IF seq = <<>> THEN <<>> ELSE <<seq[1]>>

\* As issues_for, but reporting a missing pilot only.
issues_for_pilot_only(eligible_pilots, eligible_drones) ==
    IF eligible_pilots = <<>> THEN <<NoPilotIssue>> ELSE <<>>

\* issues: the pilot issue if no pilot is eligible, then the drone issue if
\* no drone is.
issues_for(eligible_pilots, eligible_drones) ==
    (IF eligible_pilots = <<>> THEN <<NoPilotIssue>> ELSE <<>>)
    \o (IF eligible_drones = <<>> THEN <<NoDroneIssue>> ELSE <<>>)

recommend_assignment(project_id, ps, ds, ms) ==
    LET found == find_mission(ms, project_id)
    IN  IF found = <<>>
        THEN [raised |-> FALSE, pilot |-> <<>>, drone |-> <<>>,
              issues |-> <<UnknownProject(project_id)>>,
              eligible_pilots |-> <<>>, eligible_drones |-> <<>>]
        ELSE
        LET mission == found[1]
            Test(p) == pilot_test(p, mission, ms)
            IsKept(p) == Test(p) = "keep"
            eligible_pilots == SelectSeq(ps, IsKept)
            required_capability ==
                SkillToCapability(Get(mission, "required_skills", ""))
            eligible_drones ==
                filter_drones(ds, required_capability,
                              Get(mission, "location", ""), TRUE)
        IN  IF \E i \in DOMAIN ps : Test(ps[i]) = "raise" THEN Raised
            ELSE [raised |-> FALSE,
                  pilot  |-> Head1(eligible_pilots),
                  drone  |-> Head1(eligible_drones),
                  issues |-> issues_for(eligible_pilots, eligible_drones),
                  eligible_pilots |-> eligible_pilots,
                  eligible_drones |-> eligible_drones]

----------------------------------------------------------------------------
\* Conflict detector

RECURSIVE Flatten(_)
Flatten(seqs) ==
    IF seqs = <<>> THEN <<>> ELSE Head(seqs) \o Flatten(Tail(seqs))

\* mission_map = {m["project_id"]: m for m in missions}: a later mission
\* replaces an earlier one with the same id.  Only built when every mission
\* has the key.
mission_map_get(ms, assignment) ==
    LET hits == {i \in DOMAIN ms : ms[i]["project_id"] = assignment}
    IN  IF hits = {} THEN <<>> ELSE <<ms[Max(hits)]>>

\* As pilot_lines, but comparing the locations as stored, not normalised.
pilot_lines_raw_location(p, ms) ==
    LET assignment == Get(p, "current_assignment", None)
        name       == Get(p, "name", None)
        found      == mission_map_get(ms, assignment)
        mission    == found[1]
    IN  IF is_empty_assignment(assignment) THEN <<>>
        ELSE IF found = <<>> THEN <<<<"pilot_unknown_mission", name, assignment>>>>
        ELSE (IF ~HasTag(p, "skills",
                         normalize_text(Get(mission, "required_skills", "")))
              THEN <<<<"pilot_lacks_skill", name, assignment>>>> ELSE <<>>)
          \o (IF ~HasTag(p, "certifications",
                         normalize_text(Get(mission, "required_certs", "")))
              THEN <<<<"pilot_lacks_certs", name, assignment>>>> ELSE <<>>)
          \o (IF Get(p, "location", "") # Get(mission, "location", "")
              THEN <<<<"pilot_location_mismatch", name, assignment>>>> ELSE <<>>)

\* The lines of the pilot phase for one pilot.
pilot_lines(p, ms) ==
    LET assignment == Get(p, "current_assignment", None)
        name       == Get(p, "name", None)
        found      == mission_map_get(ms, assignment)
        mission    == found[1]
    IN  IF is_empty_assignment(assignment) THEN <<>>
        ELSE IF found = <<>> THEN <<<<"pilot_unknown_mission", name, assignment>>>>
        ELSE (IF ~HasTag(p, "skills",
                         normalize_text(Get(mission, "required_skills", "")))
              THEN <<<<"pilot_lacks_skill", name, assignment>>>> ELSE <<>>)
          \o (IF ~HasTag(p, "certifications",
                         normalize_text(Get(mission, "required_certs", "")))
              THEN <<<<"pilot_lacks_certs", name, assignment>>>> ELSE <<>>)
          \o (IF normalize_text(Get(p, "location", ""))
                 # normalize_text(Get(mission, "location", ""))
              THEN <<<<"pilot_location_mismatch", name, assignment>>>> ELSE <<>>)

\* As drone_lines, but comparing the status as stored, not normalised.
drone_lines_raw_status(d, ms) ==
    LET assignment == Get(d, "current_assignment", None)
        id         == Get(d, "drone_id", None)
        found      == mission_map_get(ms, assignment)
        mission    == found[1]
        required_cap ==
            Lower(SkillToCapability(Get(mission, "required_skills", "")))
    IN  IF is_empty_assignment(assignment) THEN <<>>
        ELSE IF found = <<>> THEN <<<<"drone_unknown_mission", id, assignment>>>>
        ELSE (IF Get(d, "status", "") = "maintenance"
              THEN <<<<"drone_in_maintenance", id, assignment>>>> ELSE <<>>)
          \o (IF normalize_text(Get(d, "location", ""))
                 # normalize_text(Get(mission, "location", ""))
              THEN <<<<"drone_location_mismatch", id, assignment>>>> ELSE <<>>)
          \o (IF ~HasTag(d, "capabilities", required_cap)
              THEN <<<<"drone_lacks_capability", id, assignment>>>> ELSE <<>>)

\* The lines of the drone phase for one drone.
drone_lines(d, ms) ==
    LET assignment == Get(d, "current_assignment", None)
        id         == Get(d, "drone_id", None)
        found      == mission_map_get(ms, assignment)
        mission    == found[1]
        required_cap ==
            Lower(SkillToCapability(Get(mission, "required_skills", "")))
    IN  IF is_empty_assignment(assignment) THEN <<>>
        ELSE IF found = <<>> THEN <<<<"drone_unknown_mission", id, assignment>>>>
        ELSE (IF normalize_text(Get(d, "status", "")) = "maintenance"
              THEN <<<<"drone_in_maintenance", id, assignment>>>> ELSE <<>>)
          \o (IF normalize_text(Get(d, "location", ""))
                 # normalize_text(Get(mission, "location", ""))
              THEN <<<<"drone_location_mismatch", id, assignment>>>> ELSE <<>>)
          \o (IF ~HasTag(d, "capabilities", required_cap)
              THEN <<<<"drone_lacks_capability", id, assignment>>>> ELSE <<>>)

\* The scan of the missions from index j for a pilot assigned to m1: the
\* line of the first overlap (then break) or no line; raise is set when the
\* scan reads start_date / end_date of a mission without the key, or a date
\* that does not parse.
ScanRaise == [raise |-> TRUE, lines |-> <<>>]

ScanLines(lines) == [raise |-> FALSE, lines |-> lines]

\* As overlap_scan, but going on after the first overlap.
RECURSIVE overlap_scan_no_break(_, _, _, _)
overlap_scan_no_break(p, m1, ms, j) ==
    IF j > Len(ms) THEN ScanLines(<<>>)
    ELSE LET m2 == ms[j]
             rest == overlap_scan_no_break(p, m1, ms, j + 1)
         IN  IF m2["project_id"] = m1["project_id"] THEN rest
             ELSE IF {"start_date", "end_date"} \ (DOMAIN m1 \cap DOMAIN m2) # {}
             THEN ScanRaise
             ELSE IF overlaps(m1["start_date"], m1["end_date"],
                              m2["start_date"], m2["end_date"]) = "true"
             THEN ScanLines(<<<<"pilot_overlap", Get(p, "name", None),
                                Get(p, "current_assignment", None),
                                m2["project_id"]>>>> \o rest.lines)
             ELSE rest

RECURSIVE overlap_scan(_, _, _, _)
overlap_scan(p, m1, ms, j) ==
    IF j > Len(ms) THEN ScanLines(<<>>)
    ELSE LET m2 == ms[j]
         IN  IF m2["project_id"] = m1["project_id"]
             THEN overlap_scan(p, m1, ms, j + 1)
             ELSE IF {"start_date", "end_date"} \ (DOMAIN m1 \cap DOMAIN m2) # {}
             THEN ScanRaise
             ELSE LET o == overlaps(m1["start_date"], m1["end_date"],
                                    m2["start_date"], m2["end_date"])
                  IN  IF o = "raise" THEN ScanRaise
                      ELSE IF o = "true"
                      THEN ScanLines(<<<<"pilot_overlap", Get(p, "name", None),
                                         Get(p, "current_assignment", None),
                                         m2["project_id"]>>>>)
                      ELSE overlap_scan(p, m1, ms, j + 1)

overlap_lines(p, ms) ==
    LET assignment == Get(p, "current_assignment", None)
        found      == mission_map_get(ms, assignment)
    IN  IF is_empty_assignment(assignment) THEN ScanLines(<<>>)
        ELSE IF found = <<>> THEN ScanLines(<<>>)
        ELSE overlap_scan(p, found[1], ms, 1)

\* As drone_by_assignment, but keeping the first drone holding the assignment.
drone_by_assignment_first(ds, assignment) ==
    LET hits == {i \in DOMAIN ds :
                    /\ Truthy(Get(ds[i], "current_assignment", None))
                    /\ Get(ds[i], "current_assignment", None) = assignment}
    IN  IF hits = {} THEN <<>> ELSE <<ds[Min(hits)]>>

\* drone_by_assignment: the last drone holding the assignment, among the
\* drones whose current_assignment is a non-empty string.
drone_by_assignment(ds, assignment) ==
    LET hits == {i \in DOMAIN ds :
                    /\ Truthy(Get(ds[i], "current_assignment", None))
                    /\ Get(ds[i], "current_assignment", None) = assignment}
    IN  IF hits = {} THEN <<>> ELSE <<ds[Max(hits)]>>

colocation_lines(p, ds) ==
    LET assignment == Get(p, "current_assignment", None)
        found      == drone_by_assignment(ds, assignment)
    IN  IF is_empty_assignment(assignment) \/ found = <<>> THEN <<>>
        ELSE IF normalize_text(Get(p, "location", ""))
                # normalize_text(Get(found[1], "location", ""))
        THEN <<<<"pilot_drone_apart", Get(p, "name", None),
                 Get(found[1], "drone_id", None), assignment>>>>
        ELSE <<>>

\* As detect_conflicts, but with the colocation phase run per pilot right
\* after the pilot's integrity checks.
detect_conflicts_merged_phases(ps, ds, ms) ==
    IF \E i \in DOMAIN ms : "project_id" \notin DOMAIN ms[i]
    THEN [raised |-> TRUE, conflicts |-> <<>>]
    ELSE IF \E i \in DOMAIN ps : overlap_lines(ps[i], ms).raise
    THEN [raised |-> TRUE, conflicts |-> <<>>]
    ELSE [raised |-> FALSE,
          conflicts |->
              Flatten([i \in DOMAIN ps |->
                          pilot_lines(ps[i], ms) \o colocation_lines(ps[i], ds)])
           \o Flatten([i \in DOMAIN ds |-> drone_lines(ds[i], ms)])
           \o Flatten([i \in DOMAIN ps |-> overlap_lines(ps[i], ms).lines])]

detect_conflicts(ps, ds, ms) ==
    IF \E i \in DOMAIN ms : "project_id" \notin DOMAIN ms[i]
    THEN [raised |-> TRUE, conflicts |-> <<>>]
    ELSE IF \E i \in DOMAIN ps : overlap_lines(ps[i], ms).raise
    THEN [raised |-> TRUE, conflicts |-> <<>>]
    ELSE [raised |-> FALSE,
          conflicts |->
              Flatten([i \in DOMAIN ps |-> pilot_lines(ps[i], ms)])
           \o Flatten([i \in DOMAIN ds |-> drone_lines(ds[i], ms)])
           \o Flatten([i \in DOMAIN ps |-> overlap_lines(ps[i], ms).lines])
           \o Flatten([i \in DOMAIN ps |-> colocation_lines(ps[i], ds)])]

----------------------------------------------------------------------------
\* Urgent reassignment planner

NoUrgentLine == <<"No urgent or high-priority missions found.">>

\* As IsUrgent, but for the priority urgent only.
IsUrgentOnly(m) == normalize_text(Get(m, "priority", "")) = "urgent"

IsUrgent(m) == normalize_text(Get(m, "priority", "")) \in {"urgent", "high"}

IsLower(m) == normalize_text(Get(m, "priority", "")) \in {"standard", "low"}

\* As find_candidate, but with the pilots in the outer loop: the first pilot
\* assigned to any mission of standard / low priority.
find_candidate_pilot_major(ms, ps) ==
    LET lower == SelectSeq(ms, IsLower)
        held == {i \in DOMAIN ps :
                    \E k \in DOMAIN lower :
                        Get(ps[i], "current_assignment", None)
                            = Get(lower[k], "project_id", None)}
    IN  [raise |-> FALSE,
         candidate |-> IF held = {} THEN <<>> ELSE <<ps[Min(held)]>>]

\* The candidate search: missions of standard / low priority in listing
\* order, within each the pilots in listing order; the first pilot whose
\* current_assignment is the mission's id.  raise is set when lm["project_id"]
\* is read of a mission without the key.
find_candidate(ms, ps) ==
    LET lower == SelectSeq(ms, IsLower)
        Holds(lm, p) == Get(p, "current_assignment", None) = lm["project_id"]
        \* the lower missions reached: up to the first that has a pilot
        hit(k) == "project_id" \in DOMAIN lower[k]
                  /\ \E i \in DOMAIN ps : Holds(lower[k], ps[i])
        bad(k) == "project_id" \notin DOMAIN lower[k] /\ ps # <<>>
        stops == {k \in DOMAIN lower : hit(k) \/ bad(k)}
    IN  IF stops = {} THEN [raise |-> FALSE, candidate |-> <<>>]
        ELSE LET k == Min(stops)
             IN  IF bad(k) THEN [raise |-> TRUE, candidate |-> <<>>]
                 ELSE [raise |-> FALSE,
                       candidate |->
                         <<ps[Min({i \in DOMAIN ps : Holds(lower[k], ps[i])})]>>]

\* As plan_step, but skipping a mission as soon as a pilot is found for it.
plan_step_pilot_only(m, ms, ps, ds) ==
    IF "project_id" \notin DOMAIN m THEN ScanRaise
    ELSE LET rec == recommend_assignment(m["project_id"], ps, ds, ms)
             c   == find_candidate(ms, ps)
         IN  IF rec.raised THEN ScanRaise
             ELSE IF rec.pilot # <<>> THEN ScanLines(<<>>)
             ELSE IF c.raise THEN ScanRaise
             ELSE IF c.candidate # <<>>
             THEN ScanLines(<<<<"reassign",
                                Get(c.candidate[1], "name", None),
                                Get(c.candidate[1], "current_assignment", None),
                                m["project_id"]>>>>)
             ELSE ScanLines(<<<<"no_reassignable", m["project_id"]>>>>)

\* The body of the loop for one urgent mission: no line (continue), one line,
\* or raise.
plan_step(m, ms, ps, ds) ==
    IF "project_id" \notin DOMAIN m THEN ScanRaise
    ELSE LET rec == recommend_assignment(m["project_id"], ps, ds, ms)
             c   == find_candidate(ms, ps)
         IN  IF rec.raised THEN ScanRaise
             ELSE IF rec.pilot # <<>> /\ rec.drone # <<>> /\ rec.issues = <<>>
             THEN ScanLines(<<>>)
             ELSE IF c.raise THEN ScanRaise
             ELSE IF c.candidate # <<>>
             THEN ScanLines(<<<<"reassign",
                                Get(c.candidate[1], "name", None),
                                Get(c.candidate[1], "current_assignment", None),
                                m["project_id"]>>>>)
             ELSE ScanLines(<<<<"no_reassignable", m["project_id"]>>>>)

\* The result carries, beside the returned plan, the project ids for which
\* recommend_assignment was run, in order.
urgent_reassignment_plan(ms, ps, ds) ==
    LET urgent == SelectSeq(ms, IsUrgent)
        steps  == [k \in DOMAIN urgent |-> plan_step(urgent[k], ms, ps, ds)]
    IN  IF urgent = <<>>
        THEN [raised |-> FALSE, plan |-> <<NoUrgentLine>>, recommended |-> <<>>]
        ELSE IF \E k \in DOMAIN urgent : steps[k].raise
        THEN [raised |-> TRUE, plan |-> <<>>, recommended |-> <<>>]
        ELSE [raised |-> FALSE,
              plan |-> Flatten([k \in DOMAIN urgent |-> steps[k].lines]),
              recommended |-> [k \in DOMAIN urgent |-> urgent[k]["project_id"]]]

----------------------------------------------------------------------------
\* The records of the data

MkPilot(skills, certs, location, status, assignment) ==
    [skills |-> skills, certifications |-> certs, location |-> location,
     status |-> status, current_assignment |-> assignment]

MkDrone(caps, status, location, assignment) ==
    [capabilities |-> caps, status |-> status, location |-> location,
     current_assignment |-> assignment]

MkMission(location, skill, cert, start, end, priority) ==
    [location |-> location, required_skills |-> skill, required_certs |-> cert,
     start_date |-> start, end_date |-> end, priority |-> priority]

PilotA == MkPilot(<<"Mapping">>, <<"DGCA">>, "Mumbai", "Available", EnDash)

PilotB ==
    MkPilot(<<"mapping", " Thermal">>, <<"dgca">>, "mumbai", "available", "PRJ002")

PilotC == MkPilot(<<"Mapping">>, <<"DGCA">>, "Mumbai", "Assigned", "PRJ001")

PilotD == MkPilot(<<"Thermal">>, <<"">>, "Delhi", "Available", "PRJ001")

PilotPool == {PilotA, PilotB, PilotC, PilotD}

DroneA == MkDrone(<<"RGB">>, "Available", "Mumbai", EnDash)

DroneB == MkDrone(<<"rgb">>, "Maintenance", "mumbai", "PRJ001")

DroneC == MkDrone(<<"Thermal", " RGB">>, "available", "Delhi", "PRJ001")

DronePool == {DroneA, DroneB, DroneC}

MissionA ==
    MkMission("Mumbai", "Mapping", "DGCA", "2024-01-01", "2024-01-10", "Urgent")

MissionB ==
    MkMission("Mumbai", "Thermal", "DGCA", "2024-01-05", "2024-01-15", "Standard")

MissionC ==
    MkMission("Delhi", "Thermal", "DGCA", "2024-01-11", "2024-01-20", "high")

MissionD ==
    MkMission("Mumbai", "Mapping", "Night Ops", "2024-01-10", "2024-01-11", "Low")

MissionPool == {MissionA, MissionB, MissionC, MissionD}

MaxPilots == 2

MaxDrones == 2

MaxMissions == 2

PilotIds == <<"P001", "P002", "P003">>

PilotNames == <<"Arjun", "Neha", "Rohit">>

DroneIds == <<"D001", "D002", "D003">>

ProjectIds == <<"PRJ001", "PRJ002", "PRJ003">>

SeqsUpTo(S, n) == UNION {[1..k -> S] : k \in 0..n}

\* The i-th row of a collection carries the i-th identifier.
WithPilotIds(profiles) ==
    [i \in DOMAIN profiles |->
        profiles[i] @@ [pilot_id |-> PilotIds[i], name |-> PilotNames[i]]]

WithDroneIds(profiles) ==
    [i \in DOMAIN profiles |-> profiles[i] @@ [drone_id |-> DroneIds[i]]]

WithProjectIds(profiles) ==
    [i \in DOMAIN profiles |-> profiles[i] @@ [project_id |-> ProjectIds[i]]]

PilotLists(pool, n) == {WithPilotIds(x) : x \in SeqsUpTo(pool, n)}

DroneLists(pool, n) == {WithDroneIds(x) : x \in SeqsUpTo(pool, n)}

MissionLists(pool, n) == {WithProjectIds(x) : x \in SeqsUpTo(pool, n)}

----------------------------------------------------------------------------
\* State

VARIABLES
    pilots,     \* the pilot collection of the store
    drones,     \* the drone collection of the store
    missions,   \* the mission collection of the store
    call,       \* the last call or command: its name and arguments
    result,     \* what it returned
    reqs,       \* the requests being served: each handler's position and locals
    given       \* history: the ids that assign commands gave out and that no
                \* status command has made Available since

vars == <<pilots, drones, missions, call, result, reqs, given>>

NoCall == [op |-> "none"]

NoResult == [raised |-> FALSE]

Idle ==
    /\ call = NoCall
    /\ result = NoResult
    /\ reqs = <<>>
    /\ given = {}

----------------------------------------------------------------------------
\* The engine called on a dataset

AskedProjects == {"PRJ001", "PRJ002", "PRJ999"}

Recommend(project_id) ==
    /\ call = NoCall
    /\ call' = [op |-> "recommend", project_id |-> project_id]
    /\ result' = recommend_assignment(project_id, pilots, drones, missions)
    /\ UNCHANGED <<pilots, drones, missions, reqs, given>>

\* As Detect, but leaving the pilots in reverse order, as a detector that
\* reversed the list it was given would.
DetectReversing ==
    /\ call = NoCall
    /\ call' = [op |-> "detect"]
    /\ result' = detect_conflicts(pilots, drones, missions)
    /\ pilots' = [i \in DOMAIN pilots |-> pilots[Len(pilots) + 1 - i]]
    /\ UNCHANGED <<drones, missions, reqs, given>>

Detect ==
    /\ call = NoCall
    /\ call' = [op |-> "detect"]
    /\ result' = detect_conflicts(pilots, drones, missions)
    /\ UNCHANGED <<pilots, drones, missions, reqs, given>>

Plan ==
    /\ call = NoCall
    /\ call' = [op |-> "plan"]
    /\ result' = urgent_reassignment_plan(missions, pilots, drones)
    /\ UNCHANGED <<pilots, drones, missions, reqs, given>>

\* recommend_assignment on the datasets of the pools.
InitRecommend ==
    /\ pilots \in PilotLists({PilotA, PilotB, PilotC}, MaxPilots)
    /\ drones \in DroneLists(DronePool, MaxDrones)
    /\ missions \in MissionLists(MissionPool, MaxMissions)
    /\ Idle

NextRecommend == \E project_id \in AskedProjects : Recommend(project_id)

SpecRecommend == InitRecommend /\ [][NextRecommend]_vars

\* detect_conflicts on the datasets of the pools.
InitDetect ==
    /\ pilots \in PilotLists(PilotPool, MaxPilots)
    /\ drones \in DroneLists(DronePool, MaxDrones)
    /\ missions \in MissionLists(MissionPool, MaxMissions)
    /\ Idle

NextDetect == Detect

SpecDetect == InitDetect /\ [][NextDetect]_vars

\* recommend_assignment on one mission of each required skill: the mapped
\* ones, an unmapped one and a mapped one in another letter case.
RequiredSkills == {"Mapping", "Survey", "Inspection", "Thermal", "LiDAR", "thermal"}

DroneD == MkDrone(<<"thermal", "rgb">>, "Available", "mumbai", EnDash)

InitSkills ==
    /\ pilots \in PilotLists({PilotA}, 1)
    /\ drones \in DroneLists(DronePool \cup {DroneD}, MaxDrones)
    /\ missions \in
          {WithProjectIds(<<MkMission(location, skill, "DGCA", "2024-01-01",
                                      "2024-01-10", "Urgent")>>) :
              location \in {"Mumbai", "Delhi"}, skill \in RequiredSkills}
    /\ Idle

NextSkills == Recommend("PRJ001")

SpecSkills == InitSkills /\ [][NextSkills]_vars

\* filter_pilots and filter_drones on the collections of the pools, with the
\* optional arguments the command layer passes: None, or a skill, certificate,
\* capability or location named in the request.
FilterPilots(skill, cert, location, available_only) ==
    /\ call = NoCall
    /\ call' = [op |-> "filter_pilots", skill |-> skill, cert |-> cert,
                location |-> location, available_only |-> available_only]
    /\ result' = [raised |-> FALSE,
                  matches |-> filter_pilots(pilots, skill, cert, location,
                                            available_only)]
    /\ UNCHANGED <<pilots, drones, missions, reqs, given>>

FilterDrones(capability, location, available_only) ==
    /\ call = NoCall
    /\ call' = [op |-> "filter_drones", capability |-> capability,
                location |-> location, available_only |-> available_only]
    /\ result' = [raised |-> FALSE,
                  matches |-> filter_drones(drones, capability, location,
                                            available_only)]
    /\ UNCHANGED <<pilots, drones, missions, reqs, given>>

AskedSkills == {None, "Thermal", "mapping"}

AskedCerts == {None, "DGCA"}

AskedCapabilities == {None, "rgb", "Thermal"}

AskedLocations == {None, "", "Mumbai", "delhi"}

InitFilter ==
    /\ pilots \in PilotLists(PilotPool, MaxPilots)
    /\ drones \in DroneLists(DronePool \cup {DroneD}, MaxDrones)
    /\ missions = <<>>
    /\ Idle

NextFilter ==
    \/ \E skill \in AskedSkills, cert \in AskedCerts,
          location \in AskedLocations, available_only \in BOOLEAN :
          FilterPilots(skill, cert, location, available_only)
    \/ \E capability \in AskedCapabilities, location \in AskedLocations,
          available_only \in BOOLEAN :
          FilterDrones(capability, location, available_only)

SpecFilter == InitFilter /\ [][NextFilter]_vars

----------------------------------------------------------------------------
\* The store and the chat commands that change it

ListFields == {"skills", "certifications", "capabilities"}

\* csv.DictWriter writes None as the empty string.
CsvText(key, value) ==
    IF key \in ListFields THEN value
    ELSE IF value = None THEN "" ELSE value

\* _write_csv: nothing is written for an empty list; otherwise the file is
\* opened for writing, which empties it, the header is the key set of the
\* first row, a row lacking a key gets the empty string there, and a row with
\* a key outside the header makes the writer raise: the file is then left
\* with the rows before that one.
write_csv_raises(rows) ==
    \E i \in DOMAIN rows : ~(DOMAIN rows[i] \subseteq DOMAIN rows[1])

write_csv(file, rows) ==
    IF rows = <<>> THEN file
    ELSE LET bad == {i \in DOMAIN rows :
                        ~(DOMAIN rows[i] \subseteq DOMAIN rows[1])}
             written == IF bad = {} THEN Len(rows) ELSE Min(bad) - 1
         IN  [i \in 1..written |->
                [k \in DOMAIN rows[1] |->
                    IF k \in DOMAIN rows[i] THEN CsvText(k, rows[i][k])
                    ELSE ""]]

\* row[key] = value
SetKey(row, key, value) ==
    [k \in DOMAIN row \cup {key} |-> IF k = key THEN value ELSE row[k]]

\* As mark_assigned, without the test of the id: every row is marked.
mark_assigned_every(rows, id_key, chosen, project_id) ==
    [i \in DOMAIN rows |->
        IF chosen # <<>>
        THEN SetKey(SetKey(rows[i], "current_assignment", project_id),
                    "status", "Assigned")
        ELSE rows[i]]

\* As mark_assigned, leaving the status as it is.
mark_assigned_keeps_status(rows, id_key, chosen, project_id) ==
    [i \in DOMAIN rows |->
        IF /\ chosen # <<>>
           /\ Get(rows[i], id_key, None) = Get(chosen[1], id_key, None)
        THEN SetKey(rows[i], "current_assignment", project_id)
        ELSE rows[i]]

\* The rows marked by the assign command: those with the id of the
\* recommended one get the project and the status Assigned.
mark_assigned(rows, id_key, chosen, project_id) ==
    [i \in DOMAIN rows |->
        IF /\ chosen # <<>>
           /\ Get(rows[i], id_key, None) = Get(chosen[1], id_key, None)
        THEN SetKey(SetKey(rows[i], "current_assignment", project_id),
                    "status", "Assigned")
        ELSE rows[i]]

is_marked(rows, id_key, chosen) ==
    /\ chosen # <<>>
    /\ \E i \in DOMAIN rows :
          Get(rows[i], id_key, None) = Get(chosen[1], id_key, None)

CrashReply == <<"exception">>

\* The empty data dictionary of a reply.
NoData == <<>>

\* As assign_with, but blocked only by a recommendation with neither a pilot
\* nor a drone: a partial recommendation is applied.
assign_with_partial(rec, project_id, ps, ds) ==
    IF rec.raised
    THEN [raised |-> TRUE, persist |-> FALSE, writes |-> <<>>,
          pilots |-> ps, drones |-> ds,
          reply |-> CrashReply, data |-> NoData, rec |-> rec]
    ELSE IF rec.pilot = <<>> /\ rec.drone = <<>>
    THEN [raised |-> FALSE, persist |-> FALSE, writes |-> <<>>,
          pilots |-> ps, drones |-> ds,
          reply |-> <<"could_not_assign", project_id>>,
          data |-> [issues |-> rec.issues, project |-> project_id],
          rec |-> rec]
    ELSE [raised  |-> FALSE,
          persist |-> TRUE,
          writes  |-> <<"pilots", "drones">>,
          pilots  |-> mark_assigned(ps, "pilot_id", rec.pilot, project_id),
          drones  |-> mark_assigned(ds, "drone_id", rec.drone, project_id),
          reply   |-> <<"could_not_assign", project_id>>,
          data    |-> [issues |-> rec.issues, project |-> project_id],
          rec     |-> rec]

\* The assign command between loading the collections and persisting them:
\* the rows as the handler leaves them, whether it goes on to persist them,
\* and its reply.  The reply is formatted after persisting and reads the name
\* of rec.pilot and the id of rec.drone: an absent one ends the handler in an
\* exception.
assign_with(rec, project_id, ps, ds) ==
    IF rec.raised
    THEN [raised |-> TRUE, persist |-> FALSE, writes |-> <<>>,
          pilots |-> ps, drones |-> ds,
          reply |-> CrashReply, data |-> NoData, rec |-> rec]
    ELSE IF rec.issues # <<>>
    THEN [raised |-> FALSE, persist |-> FALSE, writes |-> <<>>,
          pilots |-> ps, drones |-> ds,
          reply |-> <<"could_not_assign", project_id>>,
          data |-> [issues |-> rec.issues, project |-> project_id],
          rec |-> rec]
    ELSE [raised  |-> rec.pilot = <<>> \/ rec.drone = <<>>,
          persist |-> \/ is_marked(ps, "pilot_id", rec.pilot)
                      \/ is_marked(ds, "drone_id", rec.drone),
          writes  |-> <<"pilots", "drones">>,
          pilots  |-> mark_assigned(ps, "pilot_id", rec.pilot, project_id),
          drones  |-> mark_assigned(ds, "drone_id", rec.drone, project_id),
          reply   |-> IF rec.pilot = <<>> \/ rec.drone = <<>> THEN CrashReply
                      ELSE <<"assigned", Get(rec.pilot[1], "name", None),
                             Get(rec.drone[1], "drone_id", None), project_id>>,
          data    |-> IF rec.pilot = <<>> \/ rec.drone = <<>> THEN NoData
                      ELSE [pilot |-> rec.pilot[1], drone |-> rec.drone[1],
                            project |-> project_id],
          rec     |-> rec]

assign_compute(project_id, ps, ds, ms) ==
    assign_with(recommend_assignment(project_id, ps, ds, ms), project_id, ps, ds)

\* The pilot status command between loading and persisting.
update_pilot_status(pilot_id, status, ps, ds) ==
    LET Hit(p) == normalize_text(Get(p, "pilot_id", "")) = Lower(pilot_id)
        updated == \E i \in DOMAIN ps : Hit(ps[i])
    IN  [raised  |-> FALSE,
         persist |-> updated,
         writes  |-> <<"pilots">>,
         pilots  |-> [i \in DOMAIN ps |->
                        IF Hit(ps[i]) THEN SetKey(ps[i], "status", status)
                        ELSE ps[i]],
         drones  |-> ds,
         reply   |-> IF updated THEN <<"pilot_status_updated", pilot_id, status>>
                     ELSE <<"pilot_not_found", pilot_id>>,
         data    |-> IF updated THEN [pilot_id |-> pilot_id, status |-> status]
                     ELSE NoData,
         rec     |-> Raised]

\* _extract_pilot_by_name for a message in which word is the one token that
\* can be a name: the first pilot whose name, stripped and in lower case, is
\* the word.
extract_pilot_by_name(word, ps) ==
    LET hits == {i \in DOMAIN ps :
                    /\ Lower(Strip(Get(ps[i], "name", ""))) # ""
                    /\ Lower(Strip(Get(ps[i], "name", ""))) = word}
    IN  IF hits = {} THEN <<>> ELSE <<ps[Min(hits)]>>

\* The spellings the pilot assignment query takes for no assignment, beside
\* None and the empty string.
QueryEmptySpellings == {EnDash, MisEncodedDash, "-"}

\* The pilot assignment query: the reply and the pilot in its data.  With no
\* pilot of that name the handler goes on to its last return.
answer_for_pilot(found) ==
    IF found = <<>>
    THEN [raised |-> FALSE, reply |-> <<"not_understood">>,
          pilots |-> <<>>, drones |-> <<>>]
    ELSE [raised |-> FALSE,
          reply  |-> IF \/ ~Truthy(Get(found[1], "current_assignment", None))
                        \/ Get(found[1], "current_assignment", None)
                              \in QueryEmptySpellings
                     THEN <<"not_assigned", Get(found[1], "name", None)>>
                     ELSE <<"assigned_to", Get(found[1], "name", None),
                            Get(found[1], "current_assignment", None)>>,
          pilots |-> found, drones |-> <<>>]

pilot_assignment_query(word, ps) ==
    answer_for_pilot(extract_pilot_by_name(word, ps))

\* The project resources query: the pilots and drones whose
\* current_assignment is the project id.
resources_answer(proj, assigned_pilots, assigned_drones) ==
    IF assigned_pilots = <<>> /\ assigned_drones = <<>>
    THEN [raised |-> FALSE, reply |-> <<"no_resources", proj>>,
          pilots |-> <<>>, drones |-> <<>>]
    ELSE [raised |-> FALSE,
          reply  |-> <<"resources", proj,
                       [i \in DOMAIN assigned_pilots |->
                           Get(assigned_pilots[i], "name", None)],
                       [i \in DOMAIN assigned_drones |->
                           Get(assigned_drones[i], "drone_id", None)]>>,
          pilots |-> assigned_pilots, drones |-> assigned_drones]

project_resources(proj, ps, ds) ==
    LET On(r) == Get(r, "current_assignment", None) = proj
    IN  resources_answer(proj, SelectSeq(ps, On), SelectSeq(ds, On))

\* handle, for the commands above, from the loaded collections on.
handle_compute(cmd, ps, ds, ms) ==
    IF cmd.op = "assign" THEN assign_compute(cmd.project_id, ps, ds, ms)
    ELSE update_pilot_status(cmd.pilot_id, cmd.status, ps, ds)

\* The drone status command between loading and persisting.
update_drone_status(drone_id, status, ps, ds) ==
    LET Hit(d) == normalize_text(Get(d, "drone_id", "")) = Lower(drone_id)
        updated == \E i \in DOMAIN ds : Hit(ds[i])
    IN  [raised  |-> FALSE,
         persist |-> updated,
         writes  |-> <<"drones">>,
         pilots  |-> ps,
         drones  |-> [i \in DOMAIN ds |->
                        IF Hit(ds[i]) THEN SetKey(ds[i], "status", status)
                        ELSE ds[i]],
         reply   |-> IF updated THEN <<"drone_status_updated", drone_id, status>>
                     ELSE <<"drone_not_found", drone_id>>,
         data    |-> IF updated THEN [drone_id |-> drone_id, status |-> status]
                     ELSE NoData,
         rec     |-> Raised]

\* The status names _extract_status looks for, in its order.
StatusNames ==
    <<"Available", "On Leave", "Unavailable", "Assigned", "Maintenance">>

\* Python's "s in phrase" on the lower-case status phrases: a phrase holds
\* itself and, by table, the other status names that are substrings of it.
HeldWithin == ("unavailable" :> {"available"})

Occurs(s, phrase) ==
    \/ s = phrase
    \/ phrase \in DOMAIN HeldWithin /\ s \in HeldWithin[phrase]

\* _extract_status on a message whose only part that can hold a status name
\* is phrase: the first name of the list that occurs in it, in lower case.
extract_status(phrase) ==
    LET hits == {i \in DOMAIN StatusNames :
                    Occurs(Lower(StatusNames[i]), Lower(phrase))}
    IN  IF hits = {} THEN None ELSE StatusNames[Min(hits)]

\* _fuzzy_correct on the same part: a word outside the vocabulary that is
\* close enough to a word of it (difflib, cutoff 0.82) is replaced by that
\* word.  Of the phrases here only "unavailable" has a close match.
CloseMatches == ("unavailable" :> "available")

fuzzy_correct(phrase) ==
    IF Lower(phrase) \in DOMAIN CloseMatches
    THEN CloseMatches[Lower(phrase)] ELSE phrase

UsageReply(kind) ==
    [raised |-> FALSE, persist |-> FALSE, writes |-> <<>>,
     pilots |-> <<>>, drones |-> <<>>,
     reply |-> <<"usage", kind>>, data |-> NoData, rec |-> Raised]

\* handle on "update pilot <id> status <phrase>" and on "update drone <id>
\* status <phrase>", from the loaded collections on: the message is first
\* spelling-corrected and handled again, then the id and the status are
\* extracted from it.
status_command(kind, id, phrase, ps, ds) ==
    IF extract_status(fuzzy_correct(phrase)) = None
    THEN [UsageReply(kind) EXCEPT !.pilots = ps, !.drones = ds]
    ELSE IF kind = "pilot"
    THEN update_pilot_status(id, extract_status(fuzzy_correct(phrase)), ps, ds)
    ELSE update_drone_status(id, extract_status(fuzzy_correct(phrase)), ps, ds)

\* f"{prefix}{n:03d}"
FormatId(prefix, n) ==
    IF n < 10 THEN prefix \o "00" \o ToString(n)
    ELSE IF n < 100 THEN prefix \o "0" \o ToString(n)
    ELSE prefix \o ToString(n)

\* Ids that are not zero-padded to three digits, with their prefix and number.
UnpaddedIds ==
    ("P7" :> <<"P", 7>>) @@ ("D7" :> <<"D", 7>>) @@ ("PRJ7" :> <<"PRJ", 7>>)

IdNumbers == 1..20

\* re.search(prefix + "(\d+)", str(e)): the number after the prefix in an id,
\* as a set with at most one element; an id without the prefix and digits
\* (or None) has none.
id_number(prefix, e) ==
    IF e \in DOMAIN UnpaddedIds
    THEN IF UnpaddedIds[e][1] = prefix THEN {UnpaddedIds[e][2]} ELSE {}
    ELSE {n \in IdNumbers : e = FormatId(prefix, n)}

\* As next_id, counting the ids instead of taking the largest number.
next_id_by_count(prefix, existing) == FormatId(prefix, Len(existing) + 1)

\* _next_id: one more than the largest number, 1 when there is none.
next_id(prefix, existing) ==
    LET nums == UNION {id_number(prefix, existing[i]) : i \in DOMAIN existing}
    IN  FormatId(prefix, IF nums = {} THEN 1 ELSE Max(nums) + 1)

IdsOf(rows, id_key) == [i \in DOMAIN rows |-> Get(rows[i], id_key, None)]

\* _add_pilot on the parsed key=value pairs of the message (_parse_kv: keys in
\* lower case, values stripped and free of commas, so a list field has one
\* part), from the loaded pilots on.
add_pilot_row(data, ps) ==
    [pilot_id |-> next_id("P", IdsOf(ps, "pilot_id")),
     name |-> Get(data, "name", ""),
     skills |-> <<Get(data, "skills", "")>>,
     certifications |-> <<Get(data, "certifications", "")>>,
     location |-> Get(data, "location", ""),
     status |-> Get(data, "status", "Available"),
     current_assignment |-> Get(data, "current_assignment", EnDash),
     available_from |-> Get(data, "available_from", "")]

add_pilot(data, ps, ds) ==
    IF ~Truthy(Get(data, "name", None))
    THEN [UsageReply("add_pilot") EXCEPT !.pilots = ps, !.drones = ds]
    ELSE [raised  |-> FALSE,
          persist |-> TRUE,
          writes  |-> <<"pilots">>,
          pilots  |-> Append(ps, add_pilot_row(data, ps)),
          drones  |-> ds,
          reply   |-> <<"pilot_added", data.name,
                        next_id("P", IdsOf(ps, "pilot_id"))>>,
          data    |-> [pilot |-> add_pilot_row(data, ps)],
          rec     |-> Raised]

add_drone_row(data, ds) ==
    [drone_id |-> next_id("D", IdsOf(ds, "drone_id")),
     model |-> Get(data, "model", ""),
     capabilities |-> <<Get(data, "capabilities", "")>>,
     status |-> Get(data, "status", "Available"),
     location |-> Get(data, "location", ""),
     current_assignment |-> Get(data, "current_assignment", EnDash),
     maintenance_due |-> Get(data, "maintenance_due", "")]

add_drone(data, ps, ds) ==
    IF ~Truthy(Get(data, "model", None))
    THEN [UsageReply("add_drone") EXCEPT !.pilots = ps, !.drones = ds]
    ELSE [raised  |-> FALSE,
          persist |-> TRUE,
          writes  |-> <<"drones">>,
          pilots  |-> ps,
          drones  |-> Append(ds, add_drone_row(data, ds)),
          reply   |-> <<"drone_added", next_id("D", IdsOf(ds, "drone_id"))>>,
          data    |-> [drone |-> add_drone_row(data, ds)],
          rec     |-> Raised]

add_mission_row(data, ms) ==
    [project_id |-> next_id("PRJ", IdsOf(ms, "project_id")),
     client |-> Get(data, "client", ""),
     location |-> Get(data, "location", ""),
     required_skills |-> Get(data, "required_skills", ""),
     required_certs |-> Get(data, "required_certs", ""),
     start_date |-> Get(data, "start_date", ""),
     end_date |-> Get(data, "end_date", ""),
     priority |-> Get(data, "priority", "Standard")]

\* _add_mission: the missions as the handler leaves them, whether it persists
\* them, and its reply.
add_mission(data, ms) ==
    IF ~Truthy(Get(data, "client", None)) \/ ~Truthy(Get(data, "location", None))
    THEN [persist |-> FALSE, missions |-> ms,
          reply |-> <<"usage", "add_mission">>, data |-> NoData]
    ELSE [persist  |-> TRUE,
          missions |-> Append(ms, add_mission_row(data, ms)),
          reply    |-> <<"mission_added",
                         next_id("PRJ", IdsOf(ms, "project_id"))>>,
          data     |-> [mission |-> add_mission_row(data, ms)]]

\* The collections a handler that persists hands to the store, each as it
\* is written: a raise of one write leaves the later ones undone.
Wrote(out) ==
    IF ~out.persist THEN <<>>
    ELSE IF out.writes = <<"pilots", "drones">> /\ write_csv_raises(out.pilots)
    THEN <<"pilots">>
    ELSE out.writes

\* The ids an assign command gave out and the ids a status command made
\* Available.
GaveOut(out) ==
    IF out.reply[1] = "assigned" /\ ~out.raised
    THEN {<<"pilot", Get(out.rec.pilot[1], "pilot_id", None)>>,
          <<"drone", Get(out.rec.drone[1], "drone_id", None)>>}
    ELSE {}

MadeAvailable(out) ==
    IF out.reply[1] = "pilot_status_updated" /\ out.reply[3] = "Available"
    THEN {<<"pilot", Get(out.pilots[i], "pilot_id", None)>> :
             i \in {j \in DOMAIN out.pilots :
                      normalize_text(Get(out.pilots[j], "pilot_id", ""))
                          = Lower(out.reply[2])}}
    ELSE IF out.reply[1] = "drone_status_updated" /\ out.reply[3] = "Available"
    THEN {<<"drone", Get(out.drones[i], "drone_id", None)>> :
             i \in {j \in DOMAIN out.drones :
                      normalize_text(Get(out.drones[j], "drone_id", ""))
                          = Lower(out.reply[2])}}
    ELSE {}

\* The end of a handler served with no other request running: it persists
\* what it changed, the pilots before the drones, and replies; an exception
\* in between leaves the rest undone.
Finish(out) ==
    /\ result' = [raised |-> \/ out.raised
                             \/ \E i \in DOMAIN Wrote(out) :
                                   \/ /\ Wrote(out)[i] = "pilots"
                                      /\ write_csv_raises(out.pilots)
                                   \/ /\ Wrote(out)[i] = "drones"
                                      /\ write_csv_raises(out.drones),
                  reply |-> out.reply, data |-> out.data, rec |-> out.rec,
                  wrote |-> Wrote(out),
                  pilots_before |-> pilots, drones_before |-> drones,
                  missions_before |-> missions, given_before |-> given]
    /\ pilots' = IF InSeq("pilots", Wrote(out))
                 THEN write_csv(pilots, out.pilots) ELSE pilots
    /\ drones' = IF InSeq("drones", Wrote(out))
                 THEN write_csv(drones, out.drones) ELSE drones
    /\ given' = (given \ MadeAvailable(out)) \cup GaveOut(out)
    /\ UNCHANGED <<missions, reqs>>

\* One assign command.
Assign(project_id) ==
    /\ call' = [op |-> "assign", project_id |-> project_id]
    /\ Finish(assign_compute(project_id, pilots, drones, missions))

\* One status command for a pilot, and one for a drone.
UpdatePilotStatus(pilot_id, phrase) ==
    /\ call' = [op |-> "update_pilot", id |-> pilot_id, phrase |-> phrase]
    /\ Finish(status_command("pilot", pilot_id, phrase, pilots, drones))

UpdateDroneStatus(drone_id, phrase) ==
    /\ call' = [op |-> "update_drone", id |-> drone_id, phrase |-> phrase]
    /\ Finish(status_command("drone", drone_id, phrase, pilots, drones))

\* One add command for a pilot, for a drone and for a mission.
AddPilot(data) ==
    /\ call' = [op |-> "add_pilot", data |-> data]
    /\ Finish(add_pilot(data, pilots, drones))

AddDrone(data) ==
    /\ call' = [op |-> "add_drone", data |-> data]
    /\ Finish(add_drone(data, pilots, drones))

FinishMissions(out) ==
    /\ result' = [raised |-> out.persist /\ write_csv_raises(out.missions),
                  reply |-> out.reply, data |-> out.data, rec |-> Raised,
                  wrote |-> IF out.persist THEN <<"missions">> ELSE <<>>,
                  pilots_before |-> pilots, drones_before |-> drones,
                  missions_before |-> missions, given_before |-> given]
    /\ missions' = IF out.persist THEN write_csv(missions, out.missions)
                   ELSE missions
    /\ UNCHANGED <<pilots, drones, reqs, given>>

AddMission(data) ==
    /\ call' = [op |-> "add_mission", data |-> data]
    /\ FinishMissions(add_mission(data, missions))

\* The ids and status phrases typed into status commands: ids of the store,
\* an unknown one, the status names and a word that is none.
AskedPilotIds == {"P001", "P009"}

AskedDroneIds == {"D001", "D009"}

StatusPhrases ==
    {"Available", "On Leave", "Unavailable", "Assigned", "Maintenance",
     "Grounded"}

InitAgent ==
    /\ pilots \in PilotLists({PilotA, PilotC}, MaxPilots)
    /\ drones \in DroneLists({DroneA, DroneB}, MaxDrones)
    /\ missions \in MissionLists({MissionA, MissionB, MissionC}, MaxMissions)
    /\ Idle

NextAgent == \E project_id \in AskedProjects : Assign(project_id)

SpecAgent == InitAgent /\ [][NextAgent]_vars

\* Runs of assign commands on stores that also hold a mission and a pilot
\* with no location on record.
MissionE ==
    MkMission("", "Mapping", "DGCA", "2024-01-11", "2024-01-20", "Standard")

PilotE == MkPilot(<<"Mapping">>, <<"DGCA">>, "", "Available", EnDash)

InitApplied ==
    /\ pilots \in PilotLists({PilotA, PilotB, PilotE}, MaxPilots)
    /\ drones \in DroneLists({DroneA, DroneC}, MaxDrones)
    /\ missions \in MissionLists({MissionA, MissionB, MissionE}, MaxMissions)
    /\ Idle

NextApplied == \E project_id \in AskedProjects : Assign(project_id)

SpecApplied == InitApplied /\ [][NextApplied]_vars

\* Runs of assign commands from stores in which no pilot and no drone holds
\* an assignment.
DroneF == MkDrone(<<"Thermal">>, "Available", "Mumbai", "")

InitStaff ==
    /\ pilots \in PilotLists({PilotA, PilotE}, MaxPilots)
    /\ drones \in DroneLists({DroneA, DroneF}, MaxDrones)
    /\ missions \in MissionLists({MissionA, MissionB}, MaxMissions)
    /\ Idle

NextStaff == \E project_id \in AskedProjects : Assign(project_id)

SpecStaff == InitStaff /\ [][NextStaff]_vars

\* Runs of assign and status commands.
InitStatus ==
    /\ pilots \in PilotLists({PilotA, PilotC}, MaxPilots)
    /\ drones \in DroneLists({DroneA}, MaxDrones)
    /\ missions \in MissionLists({MissionA}, 1)
    /\ Idle

NextStatus ==
    \/ \E project_id \in AskedProjects : Assign(project_id)
    \/ \E pilot_id \in AskedPilotIds, phrase \in StatusPhrases :
          UpdatePilotStatus(pilot_id, phrase)
    \/ \E drone_id \in AskedDroneIds, phrase \in StatusPhrases :
          UpdateDroneStatus(drone_id, phrase)

SpecStatus == InitStatus /\ [][NextStatus]_vars

\* The rows of a store with every column of its table.
WithPilotColumns(rows) ==
    [i \in DOMAIN rows |-> rows[i] @@ [available_from |-> "2024-01-01"]]

WithDroneColumns(rows) ==
    [i \in DOMAIN rows |->
        rows[i] @@ [model |-> "Mavic", maintenance_due |-> "2024-06-01"]]

WithMissionColumns(rows) ==
    [i \in DOMAIN rows |-> rows[i] @@ [client |-> "Acme"]]

\* The key=value pairs typed into add commands: every key but the optional
\* ones, with a status outside the known ones, and the required key missing.
AddPilotData ==
    {[name |-> "Zoya", skills |-> "Mapping", certifications |-> "DGCA",
      location |-> "Mumbai", status |-> "Grounded"],
     [skills |-> "Mapping"]}

AddDroneData ==
    {[model |-> "Mavic", capabilities |-> "RGB", location |-> "Mumbai",
      status |-> "On Leave"],
     [capabilities |-> "RGB"]}

AddMissionData ==
    {[client |-> "Acme", location |-> "Mumbai", required_skills |-> "Mapping",
      required_certs |-> "DGCA", start_date |-> "2024-01-11",
      end_date |-> "2024-01-20", priority |-> "High"],
     [client |-> "Acme"]}

\* The most rows a collection grows to by add commands.
MaxRows == 2

\* Runs of add, assign and status commands on a small store.
InitCommands ==
    /\ pilots \in {WithPilotColumns(ps) : ps \in PilotLists({PilotA}, 1)}
    /\ drones \in {WithDroneColumns(ds) : ds \in DroneLists({DroneA}, 1)}
    /\ missions \in {WithMissionColumns(ms) : ms \in MissionLists({MissionA}, 1)}
    /\ Idle

NextCommands ==
    \/ \E data \in AddPilotData :
          Len(pilots) < MaxRows /\ AddPilot(data)
    \/ \E data \in AddDroneData :
          Len(drones) < MaxRows /\ AddDrone(data)
    \/ \E data \in AddMissionData :
          Len(missions) < MaxRows /\ AddMission(data)
    \/ Assign("PRJ001")
    \/ \E phrase \in {"Available", "Maintenance"} :
          UpdatePilotStatus("P001", phrase)
    \/ \E phrase \in {"Available", "On Leave"} :
          UpdateDroneStatus("D001", phrase)

SpecCommands == InitCommands /\ [][NextCommands]_vars

\* Runs of add commands on stores whose ids are not the first ones in order:
\* ids out of order, with gaps, not zero-padded, and without a number.
WithIds(rows, id_key, ids) ==
    [i \in DOMAIN rows |-> [rows[i] EXCEPT ![id_key] = ids[i]]]

OneToOne(ids) == \A i, j \in DOMAIN ids : ids[i] = ids[j] => i = j

StoresWithIds(rows, id_key, pool) ==
    {WithIds(SubSeq(rows, 1, Len(ids)), id_key, ids) :
        ids \in {x \in SeqsUpTo(pool, Len(rows)) : OneToOne(x)}}

\* The most rows of a collection in runs of add commands.
MaxListed == 3

InitAdd ==
    /\ pilots \in StoresWithIds(WithPilotColumns(WithPilotIds(<<PilotA, PilotC>>)),
                                "pilot_id", {"P002", "P003", "P7", "X1"})
    /\ drones \in StoresWithIds(WithDroneColumns(WithDroneIds(<<DroneA, DroneB>>)),
                                "drone_id", {"D7"})
    /\ missions \in StoresWithIds(
                        WithMissionColumns(WithProjectIds(<<MissionA, MissionB>>)),
                        "project_id", {"PRJ003"})
    /\ Idle

NextAdd ==
    \/ \E data \in AddPilotData :
          Len(pilots) < MaxListed /\ AddPilot(data)
    \/ \E data \in AddDroneData :
          Len(drones) < MaxListed /\ AddDrone(data)
    \/ \E data \in AddMissionData :
          Len(missions) < MaxListed /\ AddMission(data)

SpecAdd == InitAdd /\ [][NextAdd]_vars

----------------------------------------------------------------------------
\* The hosting service: POST /chat is a plain function, which the framework
\* runs on a pool of worker threads, and the one agent and its store are
\* shared by all of them without a lock.  Each request is a handler that
\* reads the three collections, computes, and writes the collections back;
\* the reads and writes of the requests in flight interleave freely.

NumRequests == 2

Commands ==
    {[op |-> "assign", project_id |-> "PRJ001"],
     [op |-> "assign", project_id |-> "PRJ002"],
     [op |-> "update_pilot", pilot_id |-> "P001", status |-> "On Leave"]}

NoOut ==
    [raised |-> FALSE, persist |-> FALSE, writes |-> <<>>,
     pilots |-> <<>>, drones |-> <<>>,
     reply |-> <<"none">>, data |-> NoData, rec |-> Raised]

NewRequest(cmd) ==
    [cmd |-> cmd, pc |-> "start", pilots |-> <<>>, drones |-> <<>>,
     missions |-> <<>>, out |-> NoOut]

GetPilots(i) ==
    /\ reqs[i].pc = "start"
    /\ reqs' = [reqs EXCEPT ![i].pc = "got_pilots", ![i].pilots = pilots]
    /\ UNCHANGED <<pilots, drones, missions, call, result, given>>

GetDrones(i) ==
    /\ reqs[i].pc = "got_pilots"
    /\ reqs' = [reqs EXCEPT ![i].pc = "got_drones", ![i].drones = drones]
    /\ UNCHANGED <<pilots, drones, missions, call, result, given>>

GetMissions(i) ==
    /\ reqs[i].pc = "got_drones"
    /\ reqs' = [reqs EXCEPT ![i].pc = "got_missions", ![i].missions = missions]
    /\ UNCHANGED <<pilots, drones, missions, call, result, given>>

Computed(i, out) ==
    reqs' = [reqs EXCEPT ![i].pc = IF out.persist THEN "update_pilots"
                                   ELSE "done",
                         ![i].pilots = out.pilots,
                         ![i].drones = out.drones,
                         ![i].out = out]

Compute(i) ==
    /\ reqs[i].pc = "got_missions"
    /\ Computed(i, handle_compute(reqs[i].cmd, reqs[i].pilots, reqs[i].drones,
                                  reqs[i].missions))
    /\ UNCHANGED <<pilots, drones, missions, call, result, given>>

UpdatePilots(i) ==
    /\ reqs[i].pc = "update_pilots"
    /\ pilots' = write_csv(pilots, reqs[i].pilots)
    /\ reqs' = [reqs EXCEPT ![i].pc = IF write_csv_raises(reqs[i].pilots)
                                      THEN "done"
                                      ELSE IF reqs[i].cmd.op = "assign"
                                      THEN "update_drones" ELSE "done",
                            ![i].out.raised =
                                @ \/ write_csv_raises(reqs[i].pilots)]
    /\ UNCHANGED <<drones, missions, call, result, given>>

UpdateDrones(i) ==
    /\ reqs[i].pc = "update_drones"
    /\ drones' = write_csv(drones, reqs[i].drones)
    /\ reqs' = [reqs EXCEPT ![i].pc = "done",
                            ![i].out.raised =
                                @ \/ write_csv_raises(reqs[i].drones)]
    /\ UNCHANGED <<pilots, missions, call, result, given>>

InitServe ==
    /\ pilots \in PilotLists({PilotA, PilotC}, MaxPilots)
    /\ drones \in DroneLists({DroneA}, MaxDrones)
    /\ missions \in MissionLists({MissionA}, MaxMissions)
    /\ call = NoCall
    /\ result = NoResult
    /\ reqs \in [1..NumRequests -> {NewRequest(cmd) : cmd \in Commands}]
    /\ given = {}

NextServe ==
    \E i \in 1..NumRequests :
        \/ GetPilots(i)
        \/ GetDrones(i)
        \/ GetMissions(i)
        \/ Compute(i)
        \/ UpdatePilots(i)
        \/ UpdateDrones(i)

SpecServe == InitServe /\ [][NextServe]_vars

\* detect_conflicts on datasets with up to MaxScanned missions, for the scan
\* of the other missions in the overlap phase.
MaxScanned == 3

InitOverlap ==
    /\ pilots \in PilotLists(PilotPool, MaxPilots)
    /\ drones = <<>>
    /\ missions \in MissionLists(MissionPool, MaxScanned)
    /\ Idle

NextOverlap == Detect

SpecOverlap == InitOverlap /\ [][NextOverlap]_vars

\* The five functions of the engine, each called and then called a second
\* time with the same arguments on the collections as the first call left
\* them.  None of them assigns to a list or a record it is given, and the
\* module keeps nothing but the constant SKILL_TO_CAPABILITY.
apply(c, ps, ds, ms) ==
    IF c.op = "recommend" THEN recommend_assignment(c.project_id, ps, ds, ms)
    ELSE IF c.op = "detect" THEN detect_conflicts(ps, ds, ms)
    ELSE IF c.op = "plan" THEN urgent_reassignment_plan(ms, ps, ds)
    ELSE IF c.op = "pilot_assignment" THEN pilot_assignment_query(c.word, ps)
    ELSE IF c.op = "project_resources"
    THEN project_resources(c.project_id, ps, ds)
    ELSE IF c.op = "filter_pilots"
    THEN [raised |-> FALSE,
          matches |-> filter_pilots(ps, c.skill, c.cert, c.location,
                                    c.available_only)]
    ELSE [raised |-> FALSE,
          matches |-> filter_drones(ds, c.capability, c.location,
                                    c.available_only)]

\* The second call: the call record keeps the result of the first.
Again ==
    /\ call # NoCall
    /\ "first" \notin DOMAIN call
    /\ call' = call @@ [first |-> result]
    /\ result' = apply(call, pilots, drones, missions)
    /\ UNCHANGED <<pilots, drones, missions, reqs, given>>

InitPure ==
    /\ pilots \in PilotLists(PilotPool, MaxPilots)
    /\ drones \in DroneLists(DronePool, MaxDrones)
    /\ missions \in MissionLists({MissionA, MissionB}, MaxMissions)
    /\ Idle

NextPure ==
    \/ \E project_id \in AskedProjects : Recommend(project_id)
    \/ Detect
    \/ Plan
    \/ \E skill \in AskedSkills : FilterPilots(skill, None, "Mumbai", TRUE)
    \/ \E capability \in AskedCapabilities : FilterDrones(capability, None, FALSE)
    \/ Again

SpecPure == InitPure /\ [][NextPure]_vars

\* recommend_assignment and detect_conflicts on two datasets that differ only
\* in the letter case of one mission's required skill: the call is run on
\* the first, then on the second.
OtherCase ==
    ("Thermal" :> "thermal") @@ ("thermal" :> "Thermal") @@
    ("Mapping" :> "mapping") @@ ("mapping" :> "Mapping")

DroneG == MkDrone(<<"Thermal">>, "Assigned", "Mumbai", "PRJ001")

MaxRecased == 1

AgainRecased(i) ==
    /\ call # NoCall
    /\ "first" \notin DOMAIN call
    /\ i \in DOMAIN missions
    /\ missions[i].required_skills \in DOMAIN OtherCase
    /\ call' = call @@ [first |-> result, recased |-> i]
    /\ missions' = [missions EXCEPT
                       ![i].required_skills = OtherCase[missions[i].required_skills]]
    /\ result' = apply(call, pilots, drones, missions')
    /\ UNCHANGED <<pilots, drones, reqs, given>>

InitCase ==
    /\ pilots \in PilotLists({PilotA, PilotB}, MaxPilots)
    /\ drones \in DroneLists({DroneA, DroneF, DroneG}, MaxDrones)
    /\ missions \in
          {WithProjectIds(x) :
              x \in SeqsUpTo({MkMission("Mumbai", skill, "DGCA", "2024-01-01",
                                        "2024-01-10", "Urgent") :
                                 skill \in DOMAIN OtherCase}, MaxRecased)}
    /\ Idle

NextCase ==
    \/ Recommend("PRJ001")
    \/ Detect
    \/ \E i \in 1 .. MaxRecased : AgainRecased(i)

SpecCase == InitCase /\ [][NextCase]_vars

\* _overlaps on the dates of the data and on the empty string of a missing
\* date.
AskedDates == DOMAIN DateOrd \cup {""}

Overlaps(a_start, a_end, b_start, b_end) ==
    /\ call = NoCall
    /\ call' = [op |-> "overlaps", a_start |-> a_start, a_end |-> a_end,
                b_start |-> b_start, b_end |-> b_end]
    /\ result' = [raised |-> overlaps(a_start, a_end, b_start, b_end) = "raise",
                  value  |-> overlaps(a_start, a_end, b_start, b_end)]
    /\ UNCHANGED <<pilots, drones, missions, reqs, given>>

InitDates ==
    /\ pilots = <<>>
    /\ drones = <<>>
    /\ missions = <<>>
    /\ Idle

NextDates ==
    \E a_start, a_end, b_start, b_end \in AskedDates :
        Overlaps(a_start, a_end, b_start, b_end)

SpecDates == InitDates /\ [][NextDates]_vars

\* urgent_reassignment_plan on datasets with up to MaxScanned missions.
InitPlan ==
    /\ pilots \in PilotLists({PilotA, PilotB, PilotC}, MaxPilots)
    /\ drones \in DroneLists({DroneA, DroneB}, MaxDrones)
    /\ missions \in MissionLists(MissionPool, MaxScanned)
    /\ Idle

NextPlan == Plan

SpecPlan == InitPlan /\ [][NextPlan]_vars

\* The engine and the two queries of the agent, called, then one empty
\* spelling in the store replaced by another, then called again.
AskedWords == {"arjun", "neha"}

AssignmentQuery(word) ==
    /\ call = NoCall
    /\ call' = [op |-> "pilot_assignment", word |-> word]
    /\ result' = pilot_assignment_query(word, pilots)
    /\ UNCHANGED <<pilots, drones, missions, reqs, given>>

ProjectResources(project_id) ==
    /\ call = NoCall
    /\ call' = [op |-> "project_resources", project_id |-> project_id]
    /\ result' = project_resources(project_id, pilots, drones)
    /\ UNCHANGED <<pilots, drones, missions, reqs, given>>

CanRespell(rows, i, spelling) ==
    /\ call # NoCall
    /\ {"first", "respelled"} \cap DOMAIN call = {}
    /\ rows[i].current_assignment \in EmptySpellings \ {spelling}

RespellPilot(i, spelling) ==
    /\ CanRespell(pilots, i, spelling)
    /\ pilots' = [pilots EXCEPT ![i].current_assignment = spelling]
    /\ call' = call @@ [respelled |->
                          <<"pilot", i, pilots[i].current_assignment, spelling>>]
    /\ UNCHANGED <<drones, missions, result, reqs, given>>

RespellDrone(i, spelling) ==
    /\ CanRespell(drones, i, spelling)
    /\ drones' = [drones EXCEPT ![i].current_assignment = spelling]
    /\ call' = call @@ [respelled |->
                          <<"drone", i, drones[i].current_assignment, spelling>>]
    /\ UNCHANGED <<pilots, missions, result, reqs, given>>

InitSpelling ==
    /\ pilots \in PilotLists({PilotA, PilotB, PilotD}, MaxPilots)
    /\ drones \in DroneLists({DroneA, DroneB}, MaxDrones)
    /\ missions \in MissionLists({MissionA, MissionB}, MaxMissions)
    /\ Idle

NextSpelling ==
    \/ \E project_id \in AskedProjects : Recommend(project_id)
    \/ Detect
    \/ Plan
    \/ \E word \in AskedWords : AssignmentQuery(word)
    \/ \E project_id \in {"PRJ001", "PRJ002"} : ProjectResources(project_id)
    \/ \E i \in DOMAIN pilots, spelling \in EmptySpellings : RespellPilot(i, spelling)
    \/ \E i \in DOMAIN drones, spelling \in EmptySpellings : RespellDrone(i, spelling)
    \/ Again

SpecSpelling == InitSpelling /\ [][NextSpelling]_vars

\* The engine on datasets in which one record lacks one field, as a row read
\* from a table without that column.
Omit(rows, i, key) ==
    [rows EXCEPT ![i] = [k \in DOMAIN rows[i] \ {key} |-> rows[i][k]]]

OmittedFrom(rows, keys) ==
    {rows} \cup {Omit(rows, i, key) : i \in DOMAIN rows, key \in keys}

PilotKeys == {"name", "skills", "status", "current_assignment"}

DroneKeys == {"capabilities", "current_assignment"}

MissionKeys ==
    {"project_id", "location", "required_skills", "start_date", "end_date",
     "priority"}

InitPartial ==
    /\ \E ps \in PilotLists({PilotB, PilotC}, MaxPilots),
          ds \in DroneLists({DroneA, DroneC}, 1),
          ms \in MissionLists(MissionPool, MaxMissions) :
          \/ pilots \in OmittedFrom(ps, PilotKeys) /\ drones = ds /\ missions = ms
          \/ pilots = ps /\ drones \in OmittedFrom(ds, DroneKeys) /\ missions = ms
          \/ pilots = ps /\ drones = ds /\ missions \in OmittedFrom(ms, MissionKeys)
    /\ Idle

NextPartial ==
    \/ \E project_id \in AskedProjects : Recommend(project_id)
    \/ Detect
    \/ Plan

SpecPartial == InitPartial /\ [][NextPartial]_vars

----------------------------------------------------------------------------
\* What the claims speak of

\* Equality of two strings up to letter case.
SameText(a, b) == Lower(a) = Lower(b)

\* The tag set of a comma-separated field, in lower case.
TagSet(r, field) == {Lower(Strip(r[field][i])) : i \in DOMAIN r[field]} \ {""}

\* The elements of seq at the indices in idx, in increasing index order.
Pick(seq, idx) ==
    [k \in 1..Cardinality(idx) |->
        seq[CHOOSE i \in idx : Cardinality({j \in idx : j <= i}) = k]]

MissionsWithId(id) == {m \in {missions[i] : i \in DOMAIN missions} : m.project_id = id}

KnownProject(id) == MissionsWithId(id) # {}

TheMission(id) == CHOOSE m \in MissionsWithId(id) : TRUE

DatesOverlap(m1, m2) ==
    /\ date(m1.start_date) <= date(m2.end_date)
    /\ date(m2.start_date) <= date(m1.end_date)

HoldsAssignment(r) == r.current_assignment \notin EmptySpellings

\* The pilot is booked on an existing mission whose dates overlap M's.
BookedDuring(p, M) ==
    /\ HoldsAssignment(p)
    /\ \E m \in MissionsWithId(p.current_assignment) : DatesOverlap(m, M)

PilotEligible(p, M) ==
    /\ SameText(p.status, "Available")
    /\ SameText(p.location, M.location)
    /\ Lower(M.required_skills) \in TagSet(p, "skills")
    /\ Lower(M.required_certs) \in TagSet(p, "certifications")
    /\ ~BookedDuring(p, M)

EligiblePilotIdx(M) == {i \in DOMAIN pilots : PilotEligible(pilots[i], M)}

RecommendedFor(id) ==
    /\ call.op = "recommend"
    /\ call.project_id = id
    /\ ~result.raised

\* C4: in recommend_assignment a pilot is eligible for mission M exactly when
\* it is Available, at M's location, has M's required skill and cert, and is
\* not booked on an existing mission whose dates overlap M's.
C4_PilotEligibility ==
    \A id \in AskedProjects :
        RecommendedFor(id) /\ KnownProject(id) =>
            result.eligible_pilots = Pick(pilots, EligiblePilotIdx(TheMission(id)))

\* An Available pilot booked on an existing mission that does not overlap the
\* asked one is eligible, while another pilot is not.
C4_Witness ==
    /\ RecommendedFor("PRJ001")
    /\ KnownProject("PRJ001")
    /\ \E i, j \in DOMAIN pilots :
          /\ pilots[i] \in Range(result.eligible_pilots)
          /\ HoldsAssignment(pilots[i])
          /\ KnownProject(pilots[i].current_assignment)
          /\ pilots[j] \notin Range(result.eligible_pilots)

\* The capability a mission's required skill asks of a drone.
RequiredCapability(skill) == IF skill = "Thermal" THEN "Thermal" ELSE "RGB"

DroneEligible(d, M) ==
    /\ SameText(d.status, "Available")
    /\ Lower(RequiredCapability(M.required_skills)) \in TagSet(d, "capabilities")
    /\ SameText(d.location, M.location)

EligibleDroneIdx(M) == {i \in DOMAIN drones : DroneEligible(drones[i], M)}

FirstAt(seq, idx) == IF idx = {} THEN <<>> ELSE <<seq[Min(idx)]>>

\* C5: recommend_assignment returns the first eligible pilot and the first
\* eligible drone in input list order (absent when there is none).
C5_FirstMatch ==
    \A id \in AskedProjects :
        RecommendedFor(id) /\ KnownProject(id) =>
            /\ result.pilot = FirstAt(pilots, EligiblePilotIdx(TheMission(id)))
            /\ result.drone = FirstAt(drones, EligibleDroneIdx(TheMission(id)))

\* Two pilots and two drones are eligible and the earlier ones are returned.
C5_Witness ==
    /\ RecommendedFor("PRJ001")
    /\ KnownProject("PRJ001")
    /\ Cardinality(EligiblePilotIdx(TheMission("PRJ001"))) = 2
    /\ Cardinality(EligibleDroneIdx(TheMission("PRJ001"))) = 2
    /\ result.pilot = <<pilots[1]>>
    /\ result.drone = <<drones[1]>>
    /\ pilots[1] # pilots[2]

\* C7: for a project id that matches no mission, recommend_assignment returns
\* no pilot, no drone and exactly the one issue "Unknown project: <id>".
C7_UnknownProject ==
    \A id \in AskedProjects :
        RecommendedFor(id) /\ ~KnownProject(id) =>
            /\ result.pilot = <<>>
            /\ result.drone = <<>>
            /\ result.issues = <<UnknownProject(id)>>

\* An unknown project is asked for while pilots, drones and missions exist
\* that would match a known one.
C7_Witness ==
    /\ RecommendedFor("PRJ999")
    /\ result.issues = <<UnknownProject("PRJ999")>>
    /\ KnownProject("PRJ001")
    /\ EligiblePilotIdx(TheMission("PRJ001")) # {}
    /\ EligibleDroneIdx(TheMission("PRJ001")) # {}

Provided(x) == x \notin {None, ""}

PilotMatches(p, c) ==
    /\ (c.available_only => SameText(p.status, "Available"))
    /\ (Provided(c.skill) => Lower(c.skill) \in TagSet(p, "skills"))
    /\ (Provided(c.cert) => Lower(c.cert) \in TagSet(p, "certifications"))
    /\ (Provided(c.location) => SameText(p.location, c.location))

DroneMatches(d, c) ==
    /\ (c.available_only => SameText(d.status, "Available"))
    /\ (Provided(c.capability) => Lower(c.capability) \in TagSet(d, "capabilities"))
    /\ (Provided(c.location) => SameText(d.location, c.location))

\* C9: filter_pilots / filter_drones return exactly the input entities, in
\* their original order, that satisfy every provided predicate up to letter
\* case and, with available_only, whose status is Available; so with
\* available_only no entity of another status is returned.
C9_Filter ==
    /\ call.op = "filter_pilots" =>
          /\ result.matches =
                Pick(pilots, {i \in DOMAIN pilots : PilotMatches(pilots[i], call)})
          /\ call.available_only =>
                \A i \in DOMAIN result.matches :
                    SameText(result.matches[i].status, "Available")
    /\ call.op = "filter_drones" =>
          /\ result.matches =
                Pick(drones, {i \in DOMAIN drones : DroneMatches(drones[i], call)})
          /\ call.available_only =>
                \A i \in DOMAIN result.matches :
                    SameText(result.matches[i].status, "Available")

\* An available-only query by skill and location, written in another letter
\* case than the data, returns the second of two pilots only; the first has
\* the skill and the location but is not Available.
C9_Witness ==
    /\ call.op = "filter_pilots"
    /\ call.available_only
    /\ call.skill = "mapping"
    /\ call.location = "Mumbai"
    /\ Len(pilots) = 2
    /\ result.matches = <<pilots[2]>>
    /\ pilots[2].location = "mumbai"
    /\ ~SameText(pilots[1].status, "Available")
    /\ PilotMatches(pilots[1], [call EXCEPT !.available_only = FALSE])

Detected == call.op = "detect" /\ ~result.raised

DroneKinds ==
    {"drone_unknown_mission", "drone_in_maintenance", "drone_location_mismatch",
     "drone_lacks_capability"}

\* The lines of the drone phase that name the drone, in reported order.
ReportedForDrone(d) ==
    LET Names(line) == line[1] \in DroneKinds /\ line[2] = d.drone_id
    IN  SelectSeq(result.conflicts, Names)

ExpectedForDrone(d) ==
    LET a == d.current_assignment
        M == TheMission(a)
    IN  IF ~HoldsAssignment(d) THEN <<>>
        ELSE IF ~KnownProject(a) THEN <<<<"drone_unknown_mission", d.drone_id, a>>>>
        ELSE (IF SameText(d.status, "Maintenance")
              THEN <<<<"drone_in_maintenance", d.drone_id, a>>>> ELSE <<>>)
          \o (IF ~SameText(d.location, M.location)
              THEN <<<<"drone_location_mismatch", d.drone_id, a>>>> ELSE <<>>)
          \o (IF Lower(RequiredCapability(M.required_skills))
                    \notin TagSet(d, "capabilities")
              THEN <<<<"drone_lacks_capability", d.drone_id, a>>>> ELSE <<>>)

\* C10: for every drone holding an assignment, detect_conflicts reports only
\* the unknown-mission line when the mission does not exist, and otherwise a
\* maintenance line iff the drone is in Maintenance, a location line iff its
\* location differs from the mission's and a capability line iff it lacks the
\* capability derived from the required skill, in that order; a drone without
\* an assignment gets no line.
C10_DroneLines ==
    Detected =>
        \A i \in DOMAIN drones : ReportedForDrone(drones[i]) = ExpectedForDrone(drones[i])

\* A drone in Maintenance, away from its mission and without the capability
\* gets its three lines, next to a drone whose mission is unknown.
C10_Witness ==
    /\ Detected
    /\ \E i, j \in DOMAIN drones :
          /\ Len(ReportedForDrone(drones[i])) = 3
          /\ ReportedForDrone(drones[i])[1][1] = "drone_in_maintenance"
          /\ Len(ReportedForDrone(drones[j])) = 0
          /\ HoldsAssignment(drones[j])

PilotConsistent(p) ==
    HoldsAssignment(p) =>
        /\ KnownProject(p.current_assignment)
        /\ LET M == TheMission(p.current_assignment)
           IN  /\ Lower(M.required_skills) \in TagSet(p, "skills")
               /\ Lower(M.required_certs) \in TagSet(p, "certifications")
               /\ SameText(p.location, M.location)

DroneConsistent(d) ==
    HoldsAssignment(d) =>
        /\ KnownProject(d.current_assignment)
        /\ LET M == TheMission(d.current_assignment)
           IN  /\ ~SameText(d.status, "Maintenance")
               /\ SameText(d.location, M.location)
               /\ Lower(RequiredCapability(M.required_skills))
                     \in TagSet(d, "capabilities")

Colocated(p, d) ==
    HoldsAssignment(p) /\ p.current_assignment = d.current_assignment =>
        SameText(p.location, d.location)

ConsistentDataset ==
    /\ \A i \in DOMAIN pilots : PilotConsistent(pilots[i])
    /\ \A i \in DOMAIN drones : DroneConsistent(drones[i])
    /\ \A i \in DOMAIN pilots, j \in DOMAIN drones : Colocated(pilots[i], drones[j])

\* C1: on a dataset in which every assignment is consistent (or there is no
\* assignment), detect_conflicts returns the empty list.
C1_ConsistentNoConflicts ==
    call.op = "detect" /\ ConsistentDataset =>
        /\ ~result.raised
        /\ result.conflicts = <<>>

\* C3: recommend_assignment, detect_conflicts and urgent_reassignment_plan
\* never raise, whatever fields the records lack: they return a result.
C3_NeverRaises == call.op \in {"recommend", "detect", "plan"} => ~result.raised

\* C6: for a known project recommend_assignment returns no pilot exactly when
\* issues holds the pilot issue and no drone exactly when it holds the drone
\* issue, the pilot issue first; a found pilot or drone is returned whatever
\* the other is; so issues is empty exactly when both are present, and the
\* assign command never reads a field of an absent pilot or drone.
C6_IssuesIffAbsent ==
    call.op = "assign" /\ KnownProject(call.project_id) =>
        LET rec == result.rec
        IN  /\ ~rec.raised
            /\ (rec.pilot = <<>>) <=> InSeq(NoPilotIssue, rec.issues)
            /\ (rec.drone = <<>>) <=> InSeq(NoDroneIssue, rec.issues)
            /\ rec.issues \in {<<>>, <<NoPilotIssue>>, <<NoDroneIssue>>,
                               <<NoPilotIssue, NoDroneIssue>>}
            /\ (rec.pilot = <<>>) <=> (rec.eligible_pilots = <<>>)
            /\ (rec.drone = <<>>) <=> (rec.eligible_drones = <<>>)
            /\ (rec.issues = <<>>) <=> (rec.pilot # <<>> /\ rec.drone # <<>>)
            /\ ~result.raised
            /\ result.reply # CrashReply

\* An assign command for a known project found a pilot and no drone.
C6_Witness ==
    /\ call.op = "assign"
    /\ KnownProject(call.project_id)
    /\ result.rec.pilot # <<>>
    /\ result.rec.drone = <<>>
    /\ result.rec.issues = <<NoDroneIssue>>
    /\ result.reply = <<"could_not_assign", call.project_id>>

\* The requests that ended with a reply naming the assigned pilot and drone.
AssignedReplies ==
    {i \in DOMAIN reqs : reqs[i].pc = "done" /\ reqs[i].out.reply[1] = "assigned"}

AllServed == \A i \in DOMAIN reqs : reqs[i].pc = "done"

StoredAssignment(rows, id_key, id) ==
    {rows[k].current_assignment : k \in {n \in DOMAIN rows : rows[n][id_key] = id}}

\* C2: the mutating commands served by the hosting service do not interleave:
\* two successful assign replies never give one pilot or one drone to two
\* different projects, and once all requests are served the store holds, for
\* every successful assign reply, the pilot and the drone on its project.
C2_Serialized ==
    /\ \A i, j \in AssignedReplies :
          reqs[i].out.reply[4] # reqs[j].out.reply[4] =>
              /\ reqs[i].out.reply[2] # reqs[j].out.reply[2]
              /\ reqs[i].out.reply[3] # reqs[j].out.reply[3]
    /\ AllServed =>
          \A i \in AssignedReplies :
              LET reply == reqs[i].out.reply
                  chosen == reqs[i].out.rec
              IN  /\ StoredAssignment(pilots, "pilot_id",
                                      chosen.pilot[1].pilot_id) = {reply[4]}
                  /\ StoredAssignment(drones, "drone_id", reply[3]) = {reply[4]}

PilotKinds ==
    {"pilot_unknown_mission", "pilot_lacks_skill", "pilot_lacks_certs",
     "pilot_location_mismatch"}

\* The lines of the pilot phase that name the pilot, in reported order.
ReportedForPilot(p) ==
    LET Names(line) == line[1] \in PilotKinds /\ line[2] = p.name
    IN  SelectSeq(result.conflicts, Names)

ExpectedForPilot(p) ==
    LET a == p.current_assignment
        M == TheMission(a)
    IN  IF ~HoldsAssignment(p) THEN <<>>
        ELSE IF ~KnownProject(a) THEN <<<<"pilot_unknown_mission", p.name, a>>>>
        ELSE (IF Lower(M.required_skills) \notin TagSet(p, "skills")
              THEN <<<<"pilot_lacks_skill", p.name, a>>>> ELSE <<>>)
          \o (IF Lower(M.required_certs) \notin TagSet(p, "certifications")
              THEN <<<<"pilot_lacks_certs", p.name, a>>>> ELSE <<>>)
          \o (IF ~SameText(p.location, M.location)
              THEN <<<<"pilot_location_mismatch", p.name, a>>>> ELSE <<>>)

\* C11: for every pilot holding an assignment, detect_conflicts reports only
\* the unknown-mission line when the mission does not exist, and otherwise a
\* skill line iff the required skill is not among the pilot's skills, a cert
\* line iff the required cert is not among its certs and a location line iff
\* the locations differ up to letter case, in that order; a pilot without an
\* assignment gets no line.
C11_PilotLines ==
    Detected =>
        \A i \in DOMAIN pilots : ReportedForPilot(pilots[i]) = ExpectedForPilot(pilots[i])

\* A pilot without the skill and the cert and away from its mission gets its
\* three lines, next to a pilot who meets its mission with a location written
\* in another letter case and gets none.
C11_Witness ==
    /\ Detected
    /\ \E i, j \in DOMAIN pilots :
          /\ Len(ReportedForPilot(pilots[i])) = 3
          /\ ReportedForPilot(pilots[i])[1][1] = "pilot_lacks_skill"
          /\ ReportedForPilot(pilots[i])[3][1] = "pilot_location_mismatch"
          /\ ReportedForPilot(pilots[j]) = <<>>
          /\ HoldsAssignment(pilots[j])
          /\ pilots[j].location # TheMission(pilots[j].current_assignment).location

\* The overlap lines that name the pilot, in reported order.
ReportedOverlaps(p) ==
    LET Names(line) == line[1] = "pilot_overlap" /\ line[2] = p.name
    IN  SelectSeq(result.conflicts, Names)

\* The other missions, by index, whose dates overlap those of mission M1.
OverlappingOthers(M1) ==
    {j \in DOMAIN missions :
        /\ missions[j].project_id # M1.project_id
        /\ DatesOverlap(M1, missions[j])}

ExpectedOverlaps(p) ==
    LET a == p.current_assignment
        others == OverlappingOthers(TheMission(a))
    IN  IF ~HoldsAssignment(p) \/ ~KnownProject(a) \/ others = {} THEN <<>>
        ELSE <<<<"pilot_overlap", p.name, a, missions[Min(others)].project_id>>>>

\* C12: for each pilot assigned to an existing mission M1 detect_conflicts
\* reports at most one overlap line: it reports one iff some other mission
\* has dates overlapping M1's, and the line names the first such mission in
\* listing order; a pilot with an empty assignment or an unknown mission gets
\* no overlap line.
C12_FirstOverlap ==
    Detected =>
        \A i \in DOMAIN pilots : ReportedOverlaps(pilots[i]) = ExpectedOverlaps(pilots[i])

\* A pilot's mission, the second of three, is overlapped by the first and by
\* the third; the one line names the first.
C12_Witness ==
    /\ Detected
    /\ Len(missions) = 3
    /\ \E i \in DOMAIN pilots :
          /\ pilots[i].current_assignment = "PRJ002"
          /\ OverlappingOthers(missions[2]) = {1, 3}
          /\ Len(ReportedOverlaps(pilots[i])) = 1
          /\ ReportedOverlaps(pilots[i])[1][4] = "PRJ001"

\* The colocation lines that name the pilot, in reported order.
ReportedApart(p) ==
    LET Names(line) == line[1] = "pilot_drone_apart" /\ line[2] = p.name
    IN  SelectSeq(result.conflicts, Names)

\* The drones, by index, that hold the assignment id.
DronesOn(a) == {j \in DOMAIN drones : drones[j].current_assignment = a}

ExpectedApart(p) ==
    LET a == p.current_assignment
        d == drones[Max(DronesOn(a))]
    IN  IF ~HoldsAssignment(p) \/ DronesOn(a) = {} THEN <<>>
        ELSE IF SameText(p.location, d.location) THEN <<>>
        ELSE <<<<"pilot_drone_apart", p.name, d.drone_id, a>>>>

\* C13: detect_conflicts reports a colocation line for a pilot iff the pilot
\* holds an assignment, some drone holds the same assignment id, and the
\* pilot's location differs, up to letter case, from that of the last drone in
\* listing order holding the id; at most one such line per pilot.
C13_Colocation ==
    Detected =>
        \A i \in DOMAIN pilots : ReportedApart(pilots[i]) = ExpectedApart(pilots[i])

\* Two drones at different places hold one assignment id; of two pilots on
\* it, the one away from the later drone gets the line, naming that drone,
\* though it is where the earlier drone is, up to letter case.
C13_Witness ==
    /\ Detected
    /\ Len(drones) = 2
    /\ drones[1].current_assignment = drones[2].current_assignment
    /\ ~SameText(drones[1].location, drones[2].location)
    /\ \E i, j \in DOMAIN pilots :
          /\ pilots[i].current_assignment = drones[2].current_assignment
          /\ pilots[j].current_assignment = drones[2].current_assignment
          /\ SameText(pilots[i].location, drones[1].location)
          /\ pilots[i].location # drones[1].location
          /\ Len(ReportedApart(pilots[i])) = 1
          /\ ReportedApart(pilots[i])[1][3] = drones[2].drone_id
          /\ ReportedApart(pilots[j]) = <<>>

\* The phase that reports a line, and the place in its collection of the
\* pilot or drone the line names.
PhaseOf(line) ==
    IF line[1] \in PilotKinds THEN 1
    ELSE IF line[1] \in DroneKinds THEN 2
    ELSE IF line[1] = "pilot_overlap" THEN 3
    ELSE 4

PlaceOf(line) ==
    IF line[1] \in DroneKinds
    THEN CHOOSE i \in DOMAIN drones : drones[i].drone_id = line[2]
    ELSE CHOOSE i \in DOMAIN pilots : pilots[i].name = line[2]

ComesNoLater(l1, l2) ==
    \/ PhaseOf(l1) < PhaseOf(l2)
    \/ PhaseOf(l1) = PhaseOf(l2) /\ PlaceOf(l1) <= PlaceOf(l2)

\* C14: the list returned by detect_conflicts is ordered by phase, pilot
\* integrity, drone integrity, overlap, colocation, and within a phase by the
\* listing order of the pilots or drones that produced the lines.
C14_PhaseOrder ==
    Detected =>
        \A k, l \in DOMAIN result.conflicts :
            k < l => ComesNoLater(result.conflicts[k], result.conflicts[l])

\* A result with lines of all four phases, in which two pilots have lines in
\* the first phase and in a later one.
C14_Witness ==
    /\ Detected
    /\ {PhaseOf(result.conflicts[k]) : k \in DOMAIN result.conflicts} = 1..4
    /\ Len(pilots) = 2
    /\ \A i \in DOMAIN pilots :
          /\ ReportedForPilot(pilots[i]) # <<>>
          /\ ReportedOverlaps(pilots[i]) \o ReportedApart(pilots[i]) # <<>>

OnDates ==
    /\ call.op = "overlaps"
    /\ {call.a_start, call.a_end, call.b_start, call.b_end} \subseteq DOMAIN DateOrd

\* C16: the overlap test holds iff startA <= endB and startB <= endA on
\* calendar dates; it is symmetric in its two ranges, holds when one range
\* ends on the day the other starts, and fails when one range ends the day
\* before the other starts.
C16_OverlapTest ==
    OnDates =>
        /\ ~result.raised
        /\ result.value = "true" <=>
              /\ date(call.a_start) <= date(call.b_end)
              /\ date(call.b_start) <= date(call.a_end)
        /\ result.value \in {"true", "false"}
        /\ result.value =
              overlaps(call.b_start, call.b_end, call.a_start, call.a_end)
        /\ (/\ date(call.a_start) <= date(call.a_end)
            /\ date(call.b_start) <= date(call.b_end)
            /\ call.a_end = call.b_start) => result.value = "true"
        /\ (/\ date(call.a_start) <= date(call.a_end)
            /\ date(call.b_start) <= date(call.b_end)
            /\ date(call.a_end) + 1 = date(call.b_start)) => result.value = "false"

\* A range ending on the day the other starts overlaps it.
C16_Witness ==
    /\ OnDates
    /\ call.a_start = "2024-01-01"
    /\ call.a_end = "2024-01-10"
    /\ call.b_start = "2024-01-10"
    /\ call.b_end = "2024-01-11"
    /\ result.value = "true"

Planned == call.op = "plan" /\ ~result.raised

\* The missions of priority Urgent or High, by index.
UrgentIdx == {k \in DOMAIN missions : Lower(missions[k].priority) \in {"urgent", "high"}}

\* C17: urgent_reassignment_plan returns exactly the one line "No urgent or
\* high-priority missions found." iff no mission has priority Urgent or High
\* in any letter case, and then runs no recommendation.
C17_NoUrgent ==
    Planned =>
        /\ (result.plan = <<NoUrgentLine>>) <=> (UrgentIdx = {})
        /\ UrgentIdx = {} => result.recommended = <<>>

\* Missions of lower priority only, with a pilot assigned to one of them.
C17_Witness ==
    /\ Planned
    /\ Len(missions) >= 2
    /\ UrgentIdx = {}
    /\ \E i \in DOMAIN pilots : KnownProject(pilots[i].current_assignment)
    /\ result.plan = <<NoUrgentLine>>

\* recommend_assignment yields a pilot and a drone for the mission.
Coverable(M) == EligiblePilotIdx(M) # {} /\ EligibleDroneIdx(M) # {}

UnderResourcedIdx == {k \in UrgentIdx : ~Coverable(missions[k])}

\* The urgent mission a plan line is about.
TargetOf(line) == line[Len(line)]

\* C18: with at least one Urgent/High mission, urgent_reassignment_plan
\* returns exactly one line per Urgent/High mission for which the recommender
\* does not yield both a pilot and a drone, in mission listing order, and none
\* for a coverable mission, assigned or not; the empty list if all are
\* coverable.
C18_OneLinePerUnderResourced ==
    Planned /\ UrgentIdx # {} =>
        /\ [k \in DOMAIN result.plan |-> TargetOf(result.plan[k])]
              = [k \in 1..Cardinality(UnderResourcedIdx) |->
                    Pick(missions, UnderResourcedIdx)[k].project_id]
        /\ \A k \in DOMAIN result.plan :
              result.plan[k][1] \in {"reassign", "no_reassignable"}

\* Of three Urgent/High missions the second is coverable, and a pilot is
\* already assigned to it; the plan has a line for the first and the third.
C18_Witness ==
    /\ Planned
    /\ UrgentIdx = {1, 2, 3}
    /\ UnderResourcedIdx = {1, 3}
    /\ \E i \in DOMAIN pilots : pilots[i].current_assignment = "PRJ002"
    /\ Len(result.plan) = 2
    /\ TargetOf(result.plan[1]) = "PRJ001"
    /\ TargetOf(result.plan[2]) = "PRJ003"

\* The missions of priority Standard or Low, by index.
LowerIdx == {k \in DOMAIN missions : Lower(missions[k].priority) \in {"standard", "low"}}

\* The pilots, by index, assigned to the mission.
PilotsOn(M) == {i \in DOMAIN pilots : pilots[i].current_assignment = M.project_id}

\* The Standard/Low missions that have a pilot assigned, by index.
SourceIdx == {k \in LowerIdx : PilotsOn(missions[k]) # {}}

ExpectedLine(target) ==
    IF SourceIdx = {} THEN <<"no_reassignable", target>>
    ELSE LET source == missions[Min(SourceIdx)]
             p == pilots[Min(PilotsOn(source))]
         IN  <<"reassign", p.name, source.project_id, target>>

\* C19: for each under-resourced Urgent/High mission the plan proposes the
\* first pilot found by going through the Standard/Low missions in listing
\* order and, within each, the pilots in listing order, whose
\* current_assignment is that mission's id, or reports that there is none; the
\* pilot and the source mission are the same in every proposal of a plan, and
\* no proposal names a drone.
C19_Candidate ==
    Planned /\ UrgentIdx # {} =>
        /\ \A k \in DOMAIN result.plan :
              result.plan[k] = ExpectedLine(TargetOf(result.plan[k]))
        /\ \A k, l \in DOMAIN result.plan :
              /\ result.plan[k][1] = result.plan[l][1]
              /\ result.plan[k][1] = "reassign" =>
                    /\ result.plan[k][2] = result.plan[l][2]
                    /\ result.plan[k][3] = result.plan[l][3]
        /\ \A k \in DOMAIN result.plan : \A n \in DOMAIN result.plan[k] :
              result.plan[k][n] \notin Range(DroneIds)

\* The first pilot is assigned to the second Standard/Low mission and the
\* second pilot to the first one: the plan proposes the second pilot, though
\* an assigned drone is at hand.
C19_Witness ==
    /\ Planned
    /\ Len(missions) = 3
    /\ LowerIdx = {1, 2}
    /\ Len(pilots) = 2
    /\ pilots[1].current_assignment = "PRJ002"
    /\ pilots[2].current_assignment = "PRJ001"
    /\ \E j \in DOMAIN drones : drones[j].current_assignment = "PRJ001"
    /\ result.plan = <<<<"reassign", pilots[2].name, "PRJ001", "PRJ003">>>>

\* A record with its empty spelling, if it has one, written as "".
Canon(r) ==
    IF r.current_assignment \in EmptySpellings
    THEN [r EXCEPT !.current_assignment = ""] ELSE r

RowFields ==
    {"pilot", "drone", "eligible_pilots", "eligible_drones", "pilots", "drones"}

\* A result with the empty spellings of the records in it written as "".
CanonResult(r) ==
    [k \in DOMAIN r |->
        IF k \in RowFields THEN [i \in DOMAIN r[k] |-> Canon(r[k][i])] ELSE r[k]]

\* C20: replacing one empty-assignment spelling (empty string, hyphen,
\* en-dash, mis-encoded en-dash) by another in the current_assignment of a
\* pilot or drone changes neither the result of recommend_assignment,
\* detect_conflicts or urgent_reassignment_plan nor the answer to a pilot
\* assignment or project resources query.
C20_SpellingsEquivalent ==
    {"first", "respelled"} \subseteq DOMAIN call =>
        CanonResult(result) = CanonResult(call.first)

\* The pilot assignment query answers "not assigned" for a pilot before and
\* after its en-dash is replaced by the empty string.
C20_Witness ==
    /\ {"first", "respelled"} \subseteq DOMAIN call
    /\ call.op = "pilot_assignment"
    /\ call.respelled[1] = "pilot"
    /\ call.respelled[3] = EnDash
    /\ call.respelled[4] = ""
    /\ result.reply[1] = "not_assigned"
    /\ result.pilots = <<pilots[call.respelled[2]]>>
    /\ result.pilots # call.first.pilots

\* An assign command was answered and its recommendation did not raise.
Assigning == call.op = "assign" /\ ~result.rec.raised

\* C21: an assign command whose recommendation has a non-empty issue list
\* changes no pilot, drone or mission record, writes nothing to the store,
\* and its reply carries the issues.
C21_IssuesBlock ==
    Assigning /\ result.rec.issues # <<>> =>
        /\ pilots = result.pilots_before
        /\ drones = result.drones_before
        /\ missions = result.missions_before
        /\ result.wrote = <<>>
        /\ ~result.raised
        /\ result.reply = <<"could_not_assign", call.project_id>>
        /\ DOMAIN result.data = {"issues", "project"}
        /\ result.data.issues = result.rec.issues
        /\ result.data.project = call.project_id

\* An assign command found a pilot and no drone for a known project, with
\* pilots and drones in the store.
C21_Witness ==
    /\ Assigning
    /\ result.rec.issues = <<NoDroneIssue>>
    /\ result.rec.pilot # <<>>
    /\ drones # <<>>
    /\ result.data.issues = <<NoDroneIssue>>

\* The row with its status and current_assignment as a successful assign
\* of the project leaves them.
AssignedTo(row, project_id) ==
    [k \in DOMAIN row |->
        IF k = "status" THEN "Assigned"
        ELSE IF k = "current_assignment" THEN project_id
        ELSE row[k]]

UniqueIds(rows, id_key) ==
    \A i, j \in DOMAIN rows : rows[i][id_key] = rows[j][id_key] => i = j

\* after is before with exactly the row of that id assigned to the project.
OnlyAssigned(before, after, id_key, id, project_id) ==
    /\ DOMAIN after = DOMAIN before
    /\ \A i \in DOMAIN before :
          after[i] = IF before[i][id_key] = id
                     THEN AssignedTo(before[i], project_id)
                     ELSE before[i]
    /\ Cardinality({i \in DOMAIN before : before[i][id_key] = id}) = 1

\* C22: a successful assign of project X on a store with unique ids sets
\* status = Assigned and current_assignment = X on exactly the recommended
\* pilot and the recommended drone, leaves everything else as it was, and
\* persists the pilots and the drones.
C22_AssignEffect ==
    /\ Assigning
    /\ result.rec.issues = <<>>
    /\ UniqueIds(result.pilots_before, "pilot_id")
    /\ UniqueIds(result.drones_before, "drone_id")
    => /\ ~result.raised
       /\ OnlyAssigned(result.pilots_before, pilots, "pilot_id",
                       result.rec.pilot[1].pilot_id, call.project_id)
       /\ OnlyAssigned(result.drones_before, drones, "drone_id",
                       result.rec.drone[1].drone_id, call.project_id)
       /\ missions = result.missions_before
       /\ result.wrote = <<"pilots", "drones">>
       /\ result.reply = <<"assigned", result.rec.pilot[1].name,
                           result.rec.drone[1].drone_id, call.project_id>>

\* A successful assign on a store with a second pilot and a second drone,
\* which it left alone.
C22_Witness ==
    /\ Assigning
    /\ result.rec.issues = <<>>
    /\ Len(pilots) = 2
    /\ Len(drones) = 2
    /\ \E i \in DOMAIN pilots : pilots[i] = result.pilots_before[i]
    /\ \E i \in DOMAIN drones : drones[i] = result.drones_before[i]
    /\ \E i \in DOMAIN pilots : pilots[i] # result.pilots_before[i]

\* The statuses the help and usage texts offer for a pilot and for a drone.
PilotStatuses == {"Available", "On Leave", "Unavailable", "Assigned"}

DroneStatuses == {"Available", "Maintenance", "Assigned"}

\* after is before with the status of the rows of that id set to S.
OnlyStatusSet(before, after, id_key, id, S) ==
    /\ DOMAIN after = DOMAIN before
    /\ \A i \in DOMAIN before :
          after[i] = IF before[i][id_key] = id
                     THEN [before[i] EXCEPT !.status = S]
                     ELSE before[i]

Known(rows, id_key, id) == \E i \in DOMAIN rows : rows[i][id_key] = id

\* C23: "update pilot <id> status <S>" for an existing pilot id and S one of
\* Available, On Leave, Unavailable, Assigned sets that pilot's status to
\* exactly S, leaves every other pilot and field unchanged and replies that
\* the status was updated to S; likewise "update drone <id> status <S>" for
\* S one of Available, Maintenance, Assigned; an unknown id changes nothing
\* and replies not found.
C23_StatusUpdate ==
    /\ call.op = "update_pilot" /\ call.phrase \in PilotStatuses =>
          /\ drones = result.drones_before
          /\ missions = result.missions_before
          /\ IF Known(result.pilots_before, "pilot_id", call.id)
             THEN /\ OnlyStatusSet(result.pilots_before, pilots, "pilot_id",
                                   call.id, call.phrase)
                  /\ result.reply
                        = <<"pilot_status_updated", call.id, call.phrase>>
             ELSE /\ pilots = result.pilots_before
                  /\ result.reply = <<"pilot_not_found", call.id>>
    /\ call.op = "update_drone" /\ call.phrase \in DroneStatuses =>
          /\ pilots = result.pilots_before
          /\ missions = result.missions_before
          /\ IF Known(result.drones_before, "drone_id", call.id)
             THEN /\ OnlyStatusSet(result.drones_before, drones, "drone_id",
                                   call.id, call.phrase)
                  /\ result.reply
                        = <<"drone_status_updated", call.id, call.phrase>>
             ELSE /\ drones = result.drones_before
                  /\ result.reply = <<"drone_not_found", call.id>>

\* C24: after any sequence of add, assign and status commands from a store
\* whose statuses are valid, every pilot's status is one of Available,
\* On Leave, Unavailable, Assigned and every drone's status one of Available,
\* Maintenance, Assigned.
C24_ValidStatuses ==
    /\ \A i \in DOMAIN pilots : pilots[i].status \in PilotStatuses
    /\ \A i \in DOMAIN drones : drones[i].status \in DroneStatuses

\* The number of an id made of the prefix and digits, as a set.
NumberOf(prefix, id) ==
    {n \in IdNumbers : id \in {prefix \o ToString(n), prefix \o "0" \o ToString(n),
                           prefix \o "00" \o ToString(n)}}

\* One more than the largest number of the ids with that prefix among rows.
OneGreater(prefix, rows, id_key) ==
    LET nums == UNION {NumberOf(prefix, rows[i][id_key]) : i \in DOMAIN rows}
    IN  IF nums = {} THEN 1 ELSE Max(nums) + 1

\* after is before with one row more, whose id has that prefix and number.
Added(before, after, id_key, prefix) ==
    /\ Len(after) = Len(before) + 1
    /\ SubSeq(after, 1, Len(before)) = before
    /\ NumberOf(prefix, after[Len(after)][id_key])
          = {OneGreater(prefix, before, id_key)}

\* C25: after any sequence of add pilot, add drone and add mission commands
\* from a store with unique ids, pilot_id, drone_id and project_id are each
\* still unique within their collection, each new id being one greater than
\* the largest existing numeric id with its prefix.
C25_UniqueIds ==
    /\ UniqueIds(pilots, "pilot_id")
    /\ UniqueIds(drones, "drone_id")
    /\ UniqueIds(missions, "project_id")
    /\ result.raised = FALSE
    /\ call.op = "add_pilot" /\ result.reply[1] = "pilot_added" =>
          Added(result.pilots_before, pilots, "pilot_id", "P")
    /\ call.op = "add_drone" /\ result.reply[1] = "drone_added" =>
          Added(result.drones_before, drones, "drone_id", "D")
    /\ call.op = "add_mission" /\ result.reply[1] = "mission_added" =>
          Added(result.missions_before, missions, "project_id", "PRJ")

\* A pilot was added to a store whose ids were out of order, with a gap, and
\* a second one after it.
C25_Witness ==
    /\ call.op = "add_pilot"
    /\ Len(pilots) = 3
    /\ pilots[1].pilot_id = "P003"
    /\ pilots[2].pilot_id = "P004"
    /\ pilots[3].pilot_id = "P005"
    /\ Len(drones) = 3
    /\ drones[1].drone_id = "D7"
    /\ drones[2].drone_id = "D008"
    /\ result.raised = FALSE

\* C26: after any sequence of assign and status commands from a store where
\* it holds, every pilot and every drone whose status is Assigned has a
\* non-empty current_assignment.
C26_AssignedHolds ==
    /\ \A i \in DOMAIN pilots :
          SameText(pilots[i].status, "Assigned") => HoldsAssignment(pilots[i])
    /\ \A i \in DOMAIN drones :
          SameText(drones[i].status, "Assigned") => HoldsAssignment(drones[i])

Holds(rows, project_id) ==
    \E i \in DOMAIN rows : rows[i].current_assignment = project_id

\* The line is of the pilot, drone or colocation phase and names that pilot
\* or that drone.
NamesSelected(line, name, drone_id) ==
    \/ line[1] \in PilotKinds /\ line[2] = name
    \/ line[1] \in DroneKinds /\ line[2] = drone_id
    \/ line[1] = "pilot_drone_apart" /\ (line[2] = name \/ line[3] = drone_id)

\* The conflicts detect_conflicts reports on the store as it is.
ConflictsNow == detect_conflicts(pilots, drones, missions).conflicts

\* C27: from a store with unique ids in which no pilot or drone holds mission
\* X, after a successful assign of X, detect_conflicts reports no
\* unknown-mission, skill, cert, location, maintenance, capability or
\* colocation conflict for the pilot and the drone that assign selected.
C27_AssignedIsConsistent ==
    /\ Assigning
    /\ result.rec.issues = <<>>
    /\ UniqueIds(result.pilots_before, "pilot_id")
    /\ UniqueIds(result.drones_before, "drone_id")
    /\ ~Holds(result.pilots_before, call.project_id)
    /\ ~Holds(result.drones_before, call.project_id)
    => \A k \in DOMAIN ConflictsNow :
          ~NamesSelected(ConflictsNow[k], result.rec.pilot[1].name,
                         result.rec.drone[1].drone_id)

\* An assign command ended with the reply that names the assigned two.
Assigned == Assigning /\ ~result.raised /\ result.reply[1] = "assigned"

\* C28: in a run of commands a pilot or drone selected by a successful assign
\* is not selected by a later assign unless a status command set its status
\* back to Available in between: a successful assign selects no id that an
\* earlier one gave out and no status command has made Available since.
C28_NotGivenTwice ==
    Assigned =>
        /\ <<"pilot", result.rec.pilot[1].pilot_id>> \notin result.given_before
        /\ <<"drone", result.rec.drone[1].drone_id>> \notin result.given_before
        /\ {<<"pilot", result.rec.pilot[1].pilot_id>>,
            <<"drone", result.rec.drone[1].drone_id>>} \subseteq given

\* A successful assign selected a drone that an earlier assign had given out
\* and a status command had made Available, while the pilot of the earlier
\* one was still given out.
C28_Witness ==
    /\ Assigned
    /\ \E i \in DOMAIN result.drones_before :
          /\ result.drones_before[i].drone_id = result.rec.drone[1].drone_id
          /\ HoldsAssignment(result.drones_before[i])
    /\ result.given_before # {}

\* The positions of the rows whose current_assignment is the project id.
Crew(rows, project_id) ==
    {i \in DOMAIN rows : Get(rows[i], "current_assignment", None) = project_id}

\* C29: after any run of assign commands from a store with no assignments,
\* every mission has at most one pilot and at most one drone whose
\* current_assignment is that mission.
C29_OneCrew ==
    \A m \in DOMAIN missions :
        /\ Cardinality(Crew(pilots, missions[m].project_id)) <= 1
        /\ Cardinality(Crew(drones, missions[m].project_id)) <= 1

\* The call was run on the dataset and then on the one with the required
\* skill of a mission in the other letter case.
Recased == "recased" \in DOMAIN call /\ ~result.raised

\* C30: the letter case of a mission's required_skills does not affect the
\* recommendation or the detected conflicts: on two datasets that differ only
\* in the letter case of a mission's required skill, recommend_assignment
\* returns the same pilot and the same drone and detect_conflicts the same
\* conflict list.
C30_CaseBlind ==
    Recased =>
        IF call.op = "recommend"
        THEN /\ result.pilot = call.first.pilot
             /\ result.drone = call.first.drone
        ELSE result.conflicts = call.first.conflicts

====
